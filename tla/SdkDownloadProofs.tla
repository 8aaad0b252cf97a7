-------------------------- MODULE SdkDownloadProofs --------------------------
(***************************************************************************)
(* The firmware download as the application sees it: what it holds of an   *)
(* image is always a prefix of the image the session was opened for, and   *)
(* the download functions implement the abstract session.                  *)
(***************************************************************************)
EXTENDS SdkReplyProofs, SequenceTheorems

-----------------------------------------------------------------------------
(* The session's lock and its valid flag never part, whatever the order of *)
(* download_initialize, get_chunk, finish and a repeated                   *)
(* firmups_sdk_initialize, and whichever of them fail.                     *)
SessionTypesAll == dl \in [Contexts -> Session]
SessionInv == SessionTypesAll /\ SessionLock

(* A step that leaves the two flags of every session alone.                *)
LEMMA FlagsKept ==
  ASSUME SessionLock,
         \A c \in Contexts : dl'[c].valid = dl[c].valid /\ dl'[c].lock = dl[c].lock
  PROVE  SessionLock'
  BY DEF SessionLock

(* A step that sets both flags of one session to the same value.           *)
LEMMA FlagsSetTogether ==
  ASSUME SessionInv, NEW c \in Contexts, NEW s \in Session, s.valid = s.lock,
         dl' = [dl EXCEPT ![c] = s]
  PROVE  SessionLock'
  BY DEF SessionInv, SessionTypesAll, SessionLock

LEMMA SessionLockInit == Init => SessionLock
  BY DEF Init, SessionLock, NoSession

LEMMA SessionLockStep ==
  LockTypes /\ DataTypes /\ SessionLock /\ [Next]_vars => SessionLock'
<1> SUFFICES ASSUME LockTypes, DataTypes, SessionLock, [Next]_vars PROVE SessionLock'
  OBVIOUS
<1>1. SessionInv
  BY DEF SessionInv, SessionTypesAll, DataTypes, MemTypes
<1>2. \A c \in Contexts : dl[c] \in Session
  BY <1>1 DEF SessionInv, SessionTypesAll
<1>3. \A t \in Threads : Ctx(t) \in Contexts /\ call[t] \in CallRecord
  BY ContextOf
<1>4. ASSUME NEW c \in Contexts, NEW w \in WorkBuffers, SdkInitialize(c, w)
      PROVE  SessionLock'
  <2> DEFINE s == [dl[c] EXCEPT !.valid = FALSE, !.lock = FALSE]
  <2>1. s \in Session /\ s.valid = s.lock
    BY <1>2 DEF Session
  <2>2. dl' = [dl EXCEPT ![c] = s]
    BY <1>4 DEF SdkInitialize
  <2> QED
    BY <1>1, <2>1, <2>2, FlagsSetTogether
<1>5. ASSUME NEW t \in Threads, InitializeStarts(t)
      PROVE  SessionLock'
  <2> DEFINE s == NewSession(call[t])
  <2>1. dl' = [dl EXCEPT ![Ctx(t)] = s]
    BY <1>5 DEF InitializeStarts
  <2>2. s.valid = s.lock
    BY DEF NewSession
  <2>3. s \in Session
    <3>1. DataTypes'
      BY <1>5, SessionStepKeepsTypes
    <3>2. dl'[Ctx(t)] = s
      BY <1>1, <1>3, <2>1 DEF SessionInv, SessionTypesAll
    <3> QED
      BY <1>3, <3>1, <3>2 DEF DataTypes, MemTypes
  <2> QED
    BY <1>1, <1>3, <2>1, <2>2, <2>3, FlagsSetTogether
<1>6. ASSUME NEW t \in Threads, Finish(t)
      PROVE  SessionLock'
  <2> DEFINE s == [dl[Ctx(t)] EXCEPT !.valid = FALSE, !.lock = FALSE]
  <2>1. s \in Session /\ s.valid = s.lock
    BY <1>2, <1>3 DEF Session
  <2>2. dl' = [dl EXCEPT ![Ctx(t)] = s]
    BY <1>6 DEF Finish
  <2> QED
    BY <1>1, <1>3, <2>1, <2>2, FlagsSetTogether
<1>7. ASSUME NEW t \in Threads, CommitChunk(t)
      PROVE  SessionLock'
  <2> DEFINE n == (dl[Ctx(t)].offset + out[t].size) % UINT32
  <2>1. dl' = [dl EXCEPT ![Ctx(t)] = [dl[Ctx(t)] EXCEPT !.offset = n]]
    BY <1>7 DEF CommitChunk
  <2> HIDE DEF n
  <2>2. \A c \in Contexts : dl'[c].valid = dl[c].valid /\ dl'[c].lock = dl[c].lock
    BY <1>1, <1>2, <1>3, <2>1 DEF SessionInv, SessionTypesAll, Session
  <2> QED
    BY <2>2, FlagsKept
<1>8. ASSUME UNCHANGED dl PROVE SessionLock'
  BY <1>8 DEF SessionLock
<1>9. ASSUME NEW t \in Threads, Step(t) PROVE SessionLock'
  <2>1. CASE InitializeStarts(t) \/ Finish(t) \/ CommitChunk(t)
    BY <2>1, <1>5, <1>6, <1>7
  <2>2. CASE ~(InitializeStarts(t) \/ Finish(t) \/ CommitChunk(t))
    <3>1. UNCHANGED dl
      BY <1>9, <2>2
         DEF Step, RejectArguments, RejectNoSession, InitializeTooSmall, InitializeBusy,
             CreateRequest, Forward, Bail, DrawNonce, RandomFails, Seal, Send, Posted, Deliver,
             SendFails, OpenHeader, NotAMessage, Open, ParseError, ParseSimple, ParseChunk,
             CommitMismatch, CommitSimple, Leave, Unlock, Consume, ctxVars
    <3> QED
      BY <1>8, <3>1
  <2> QED
    BY <2>1, <2>2
<1>10. ASSUME NEW t \in Threads, Begin(t) PROVE SessionLock'
  BY <1>8, <1>10 DEF Begin, CallRejected, CallRefused, CallLocks, Refuse, ctxVars
<1>11. CASE ServeNew \/ ServeAgain
  BY <1>8, <1>11 DEF ServeNew, ServeAgain, Serve, ctxVars
<1>12. CASE UNCHANGED vars
  BY <1>8, <1>12 DEF vars
<1> QED
  BY <1>4, <1>9, <1>10, <1>11, <1>12 DEF Next

(* In every reachable state of any number of contexts and threads a        *)
(* download is locked exactly while a session is open: no path leaves a    *)
(* lock behind that would refuse every later download_initialize, and none *)
(* opens a session that a second download_initialize could overwrite.      *)
THEOREM SessionLockExact == Spec => []SessionLock
<1>1. Init => LockInv /\ DataTypes /\ SessionLock
  BY LockInvInit, InitTypes, SessionLockInit
<1>2. /\ LockInv /\ DataTypes /\ SessionLock /\ [Next]_vars
      => (LockInv /\ DataTypes /\ SessionLock)'
  BY LockInvStep, StepKeepsTypes, SessionLockStep DEF LockInv
<1> QED
  BY <1>1, <1>2, PTL DEF Spec

-----------------------------------------------------------------------------
(* What the application must observe.  *output of get_chunk points into    *)
(* the context and is read after its lock is released (sdk.c:512), so the  *)
(* thread that gets the chunks of a context is the one that opens its      *)
(* sessions.  Any thread may end them.                                     *)
DownloadOps == {"download_initialize", "get_chunk"}

OneDownloader ==
  \A t, u \in Threads : \A k \in CallsOf[t], l \in CallsOf[u] :
    k.op \in DownloadOps /\ l.op \in DownloadOps /\ k.ctx = l.ctx => t = u

(* Firmware ids and image sizes are those a uint32_t holds (sdk.h:60-61    *)
(* and the offset of firmups_sdk_firmware_download_ctx).                   *)
ImagesFit == \A f \in DOMAIN Images : f < UINT32 /\ Images[f] < UINT32

-----------------------------------------------------------------------------
(* The invariant.                                                          *)

(* A get_chunk past its check of the session works for an open one.        *)
Fetching == {"header", "seal", "send", "wait"} \cup Handling

OpenWhileFetching ==
  \A t \in Threads : IsChunk(t) /\ pc[t] \in Fetching => dl[Ctx(t)].valid

OffsetFits(c) ==
  /\ dl[c].offset < UINT32
  /\ dl[c].valid /\ dl[c].firmware_id \in DOMAIN Images
       => dl[c].offset <= Images[dl[c].firmware_id]

OffsetsFit == \A c \in Contexts : OffsetFits(c)

DownloadInv == SessionLock /\ OpenWhileFetching /\ OffsetsFit /\ ImageIntact

(* What a get_chunk asks for, from the encoder to the transport.           *)
ChunkRequest(t) == operation_create_get_firmware_request(dl[Ctx(t)])

AskingInv(t) ==
  IsChunk(t) =>
    /\ pc[t] = "seal" \/ (pc[t] = "header" /\ ret[t] = "NONE")
         => mem[Ctx(t)]["buffer1"].body = ChunkRequest(t)
    /\ pc[t] = "send" /\ ret[t] = "NONE"
         => mem[Ctx(t)]["buffer2"].body = ChunkRequest(t)
    /\ pc[t] \in Handling \cup {"wait"}
         => reqs[loc[t].tok].msg.body = ChunkRequest(t)

(* A chunk announced as the last one reaches the end of the image.         *)
LastInv(t) ==
  LET s == dl[Ctx(t)]
  IN  IsChunk(t) /\ out[t].output /\ out[t].complete /\ s.valid
        => s.firmware_id \in DOMAIN Images /\ s.offset = Images[s.firmware_id]

WholeInv == \A t \in Threads : AskingInv(t) /\ LastInv(t)

-----------------------------------------------------------------------------
(* The bytes of an image.                                                  *)
ByteString == Seq(Nat \X Nat)

LEMMA BytesAre ==
  ASSUME NEW f \in Nat, NEW at \in Nat, NEW n \in Nat
  PROVE  LET b == BytesOf(Bytes(f, at, n))
         IN  /\ b \in ByteString /\ Len(b) = n
             /\ \A i \in 1..n : b[i] = <<f, at + i - 1>>
<1>1. Bytes(f, at, n).len = n /\ Bytes(f, at, n).pos = at /\ Bytes(f, at, n).val = f
  BY DEF Bytes
<1>2. BytesOf(Bytes(f, at, n)) \in ByteString
  BY BytesItem, BytesOfItem DEF ByteString
<1> QED
  BY <1>1, <1>2 DEF BytesOf

(* A prefix, and the bytes that follow it.                                 *)
LEMMA PrefixGrows ==
  ASSUME NEW f \in Nat, NEW n \in Nat, NEW m \in Nat
  PROVE  BytesOf(Bytes(f, 0, n)) \o BytesOf(Bytes(f, n, m)) = BytesOf(Bytes(f, 0, n + m))
<1> DEFINE a == BytesOf(Bytes(f, 0, n))
           b == BytesOf(Bytes(f, n, m))
           ab == BytesOf(Bytes(f, 0, n + m))
<1>1. /\ a \in ByteString /\ Len(a) = n /\ \A i \in 1..n : a[i] = <<f, i - 1>>
      /\ b \in ByteString /\ Len(b) = m /\ \A i \in 1..m : b[i] = <<f, n + i - 1>>
      /\ ab \in ByteString /\ Len(ab) = n + m /\ \A i \in 1..(n + m) : ab[i] = <<f, i - 1>>
  <2>1. n + m \in Nat /\ 0 \in Nat
    OBVIOUS
  <2>2. a \in ByteString /\ Len(a) = n /\ \A i \in 1..n : a[i] = <<f, 0 + i - 1>>
    BY <2>1, BytesAre
  <2>3. b \in ByteString /\ Len(b) = m /\ \A i \in 1..m : b[i] = <<f, n + i - 1>>
    BY BytesAre
  <2>4. ab \in ByteString /\ Len(ab) = n + m /\ \A i \in 1..(n + m) : ab[i] = <<f, 0 + i - 1>>
    BY <2>1, BytesAre
  <2> HIDE DEF a, b, ab
  <2>5. \A i \in 1..n : 0 + i - 1 = i - 1
    OBVIOUS
  <2>6. \A i \in 1..(n + m) : 0 + i - 1 = i - 1
    OBVIOUS
  <2>7. \A i \in 1..n : a[i] = <<f, i - 1>>
    BY <2>2, <2>5
  <2>8. \A i \in 1..(n + m) : ab[i] = <<f, i - 1>>
    BY <2>4, <2>6
  <2> QED
    BY <2>2, <2>3, <2>4, <2>7, <2>8
<1> HIDE DEF a, b, ab
<1>2. /\ a \o b \in ByteString /\ Len(a \o b) = n + m
      /\ \A i \in 1..(n + m) : (a \o b)[i] = IF i <= n THEN a[i] ELSE b[i - n]
  BY <1>1, ConcatProperties DEF ByteString
<1>3. ASSUME NEW i \in 1..(n + m) PROVE (a \o b)[i] = ab[i]
  <2>1. CASE i <= n
    <3>1. i \in 1..n
      BY <2>1
    <3> QED
      BY <1>1, <1>2, <2>1, <3>1
  <2>2. CASE ~(i <= n)
    <3>1. i - n \in 1..m /\ n + (i - n) - 1 = i - 1
      BY <2>2
    <3> QED
      BY <1>1, <1>2, <2>2, <3>1
  <2> QED
    BY <2>1, <2>2
<1> QED
  BY <1>1, <1>2, <1>3, SeqEqual DEF ByteString, a, b, ab

LEMMA NoBytes ==
  ASSUME NEW f \in Nat, NEW at \in Nat
  PROVE  BytesOf(Bytes(f, at, 0)) = <<>>
<1>1. BytesOf(Bytes(f, at, 0)) \in ByteString /\ Len(BytesOf(Bytes(f, at, 0))) = 0
  BY BytesAre
<1> QED
  BY <1>1, EmptySeq DEF ByteString

-----------------------------------------------------------------------------
(* The answer of the server to a request for a chunk.                      *)

(* It names the firmware and the offset that were asked for, and the bytes *)
(* are those of that firmware's image from there on: none past its end, no *)
(* more than were asked for, and fewer only at its end.                    *)
LEMMA ChunkReply ==
  ASSUME NEW m, NEW a, AnswerTo(m, a), a.hdr.opcode = OPERATION_ID_GET_FIRMWARE_RESPONSE
  PROVE  LET its == m.body.items
             fw == its[1].val
             at == its[2].val
         IN  /\ m.hdr.opcode = OPERATION_ID_GET_FIRMWARE_REQUEST
             /\ m.body.array /\ Len(its) = 3
             /\ \A i \in 1..3 : its[i] \in Item /\ its[i].type = "uint"
             /\ fw \in DOMAIN Images
             /\ a.body = Array(<<Uint(fw), Uint(at), Uint(Slice(fw, at, its[3].val).len),
                                Slice(fw, at, its[3].val)>>)
<1> DEFINE its == m.body.items
           h == m.hdr
           p == m.body
<1>1. PICK rec \in Record :
        a = Cose([dev |-> h.dev, opcode |-> ServerReply(h, p, rec).opcode, nonce |-> 1],
                 h.dev, ServerReply(h, p, rec).body)
  BY DEF AnswerTo
<1>2. /\ ServerReply(h, p, rec).opcode = OPERATION_ID_GET_FIRMWARE_RESPONSE
      /\ a.body = ServerReply(h, p, rec).body
  BY <1>1 DEF Cose
<1>3. FirmwareAnswer(h, p, ServerReply(h, p, rec))
  BY <1>2, AnswerByOpcode
<1>4. RequestLength(h.opcode) = 3
  BY <1>3 DEF FirmwareAnswer, RequestLength, OPERATION_ID_GET_PARAMETER_REQUEST,
              OPERATION_ID_GET_DEVICE_INFO_REQUEST, OPERATION_ID_SET_DEVICE_INFO_REQUEST,
              OPERATION_ID_GET_FIRMWARE_REQUEST
<1>5. p.array /\ Len(its) = 3 /\ \A i \in 1..3 : its[i] \in Item /\ its[i].type = "uint"
  BY <1>3, <1>4 DEF FirmwareAnswer, AnswerTo, Decodable, Payload
<1> QED
  BY <1>2, <1>3, <1>5 DEF FirmwareAnswer

LEMMA SliceIs ==
  ASSUME NEW fw \in DOMAIN Images, NEW at \in Nat, NEW len \in Nat
  PROVE  LET d == Slice(fw, at, len)
         IN  /\ d = Bytes(fw, at, d.len) /\ d.len \in Nat
             /\ d.len > 0 => at + d.len <= Images[fw]
             /\ d.len < len => at + d.len >= Images[fw]
<1>1. Images[fw] \in Nat
  BY SdkAssumption
<1>2. \A n : Bytes(fw, at, n).len = n
  BY DEF Bytes
<1>3. CASE at >= Images[fw]
  BY <1>1, <1>2, <1>3 DEF Slice
<1>4. CASE ~(at >= Images[fw])
  BY <1>1, <1>2, <1>4 DEF Slice
<1> QED
  BY <1>3, <1>4

(* What a get_chunk is about to commit comes from an answer for the        *)
(* firmware of its session, at its offset.                                 *)
LEMMA CommittedAnswer ==
  ASSUME ResultsInv, ImagesFit, NEW t \in Threads, CommitChunk(t)
  PROVE  \E r \in reps, at \in Nat, len \in Nat :
           LET s == dl[Ctx(t)]
               d == Slice(s.firmware_id, at, len)
           IN  /\ MayReach(t, r)
               /\ reqs[r.tok].msg.hdr.opcode = OPERATION_ID_GET_FIRMWARE_REQUEST
               /\ reqs[r.tok].msg.body.items[2].val = at
               /\ reqs[r.tok].msg.body.items[3].val = len
               /\ s.firmware_id \in DOMAIN Images /\ s.firmware_id \in Nat
               /\ at % UINT32 = s.offset
               /\ out[t].size = d.len /\ d.len <= s.buffer1_size
               /\ mem[Ctx(t)]["buffer1"] = Data(d)
<1> DEFINE c == Ctx(t)
           s == dl[c]
<1>1. /\ pc[t] = "commit" /\ IsChunk(t) /\ "NONE" \in RetRead(t)
      /\ out[t].vals[2] = s.offset /\ out[t].vals[1] = s.firmware_id
  BY DEF CommitChunk, Proceeds, EchoMatches, IsChunk
<1>2. LockTypes /\ DataTypes /\ OwnCode(t) /\ Following(t) /\ RepliesAnswer
  BY DEF ResultsInv, LockInv, ReplyInv, CodeInvariant
<1>3. ret[t] = "NONE"
  BY <1>1, <1>2, OwnCodeRead DEF Working
<1>4. PICK r \in reps : /\ MayReach(t, r)
                        /\ ParsedAs(t, r.msg.hdr.opcode, Plain(r.msg.body))
  BY <1>1, <1>2, <1>3 DEF Following, ParsedInv, Parsed
<1>5. PICK m : m = reqs[r.tok].msg
  OBVIOUS
<1>6. PICK f : f = Plain(r.msg.body)
  OBVIOUS
<1> DEFINE op == r.msg.hdr.opcode
           g == operation_parse_get_firmware_response(op, f, s.buffer1_size)
           types == << {"uint"}, {"uint"}, ItemType >>
<1>7. /\ g.code = "NONE" /\ out[t].vals = g.vals /\ out[t].size = g.data.len
      /\ mem[c]["buffer1"] = Data(g.data)
  BY <1>1, <1>4, <1>6 DEF ParsedAs, IsChunk, Ctx
<1>8. /\ op = OPERATION_ID_GET_FIRMWARE_RESPONSE
      /\ Reads(Fields(f), types, 3)
      /\ g.data = Fields(f)[4] /\ ~(g.data.len > s.buffer1_size)
  <2>1. g.code = "NONE" =>
          /\ op = OPERATION_ID_GET_FIRMWARE_RESPONSE
          /\ Reads(Fields(f), types, 3)
          /\ g.data = Fields(f)[4] /\ ~(g.data.len > s.buffer1_size)
    <3> HIDE DEF op
    <3> QED
      BY ChunkCarriesData
  <2> QED
    BY <1>7, <2>1
<1>9. AnswerTo(m, r.msg)
  BY <1>2, <1>5 DEF RepliesAnswer
<1>10. PICK fw, at, len :
         /\ fw = m.body.items[1].val /\ at = m.body.items[2].val /\ len = m.body.items[3].val
  OBVIOUS
<1>11. /\ m.hdr.opcode = OPERATION_ID_GET_FIRMWARE_REQUEST
       /\ \A i \in 1..3 : m.body.items[i] \in Item
       /\ fw \in DOMAIN Images
       /\ r.msg.body = Array(<<Uint(fw), Uint(at), Uint(Slice(fw, at, len).len),
                              Slice(fw, at, len)>>)
  BY <1>8, <1>9, <1>10, ChunkReply
<1>12. fw \in Nat /\ at \in Nat /\ len \in Nat
  <2>1. m.body.items[1] \in Item /\ m.body.items[2] \in Item /\ m.body.items[3] \in Item
    BY <1>11
  <2> QED
    BY <1>10, <2>1 DEF Item
<1>13. PICK d : d = Slice(fw, at, len)
  OBVIOUS
<1>14. Fields(f) = <<Uint(fw), Uint(at), Uint(d.len), d>>
  <2>1. PICK its : its = <<Uint(fw), Uint(at), Uint(d.len), d>>
    OBVIOUS
  <2>2. f.kind = "plain" /\ f.body.array /\ f.body.items = its
    BY <1>6, <1>11, <1>13, <2>1 DEF Plain, Array
  <2> QED
    BY <2>1, <2>2 DEF Fields
<1>15. g.vals[1] = fw % UINT32 /\ g.vals[2] = at % UINT32
  <2>1. Reads(Fields(f), types, 1) /\ Reads(Fields(f), types, 2)
    BY <1>8 DEF Reads
  <2>2. Fields(f)[1].val = fw /\ Fields(f)[2].val = at
    BY <1>14 DEF Uint
  <2>3. g.vals = <<IF Reads(Fields(f), types, 1) THEN Fields(f)[1].val % UINT32 ELSE 0,
                   IF Reads(Fields(f), types, 2) THEN Fields(f)[2].val % UINT32 ELSE 0, 0>>
    <3> DEFINE fs == Fields(f)
    <3> HIDE DEF fs, types, op
    <3>1. g.code = "NONE" =>
            g.vals = <<IF Reads(fs, types, 1) THEN fs[1].val % UINT32 ELSE 0,
                       IF Reads(fs, types, 2) THEN fs[2].val % UINT32 ELSE 0, 0>>
      BY DEF operation_parse_get_firmware_response, types, fs
    <3> QED
      BY <1>7, <3>1 DEF fs
  <2> HIDE DEF g, types
  <2> QED
    BY <2>1, <2>2, <2>3
<1>16. fw % UINT32 = fw
  BY <1>11, <1>12, UINT32Assumption DEF ImagesFit
<1>17. s.firmware_id = fw /\ at % UINT32 = s.offset
  BY <1>1, <1>7, <1>15, <1>16
<1>18. d.len \in Nat
  BY <1>11, <1>12, <1>13, SliceIs
<1>19. g.data = d
  BY <1>8, <1>14
<1>20. d.len <= s.buffer1_size
  <2>1. s.buffer1_size \in Nat
    BY <1>2, OwnState DEF Session
  <2> QED
    BY <1>8, <1>18, <1>19, <2>1
<1> HIDE DEF g, op
<1>21. /\ reqs[r.tok].msg.hdr.opcode = OPERATION_ID_GET_FIRMWARE_REQUEST
       /\ reqs[r.tok].msg.body.items[2].val = at /\ reqs[r.tok].msg.body.items[3].val = len
       /\ d = Slice(s.firmware_id, at, len)
  BY <1>5, <1>10, <1>11, <1>13, <1>17
<1> QED
  BY <1>4, <1>7, <1>11, <1>12, <1>17, <1>19, <1>20, <1>21

(* The bytes it hands out are the next ones of the image, and the offset   *)
(* does not wrap.                                                          *)
LEMMA CommittedChunk ==
  ASSUME ResultsInv, ImagesFit, OffsetsFit, NEW t \in Threads, CommitChunk(t)
  PROVE  LET s == dl[Ctx(t)]
             n == out[t].size
         IN  /\ s.firmware_id \in DOMAIN Images /\ s.firmware_id \in Nat
             /\ n \in Nat /\ n <= s.buffer1_size
             /\ ChunkBytes(Ctx(t)) = BytesOf(Bytes(s.firmware_id, s.offset, n))
             /\ n > 0 => s.offset + n <= Images[s.firmware_id]
             /\ (s.offset + n) % UINT32 = s.offset + n
<1> DEFINE s == dl[Ctx(t)]
<1>1. PICK r \in reps, at \in Nat, len \in Nat :
        LET d == Slice(s.firmware_id, at, len)
        IN  /\ s.firmware_id \in DOMAIN Images /\ s.firmware_id \in Nat
            /\ at % UINT32 = s.offset
            /\ out[t].size = d.len /\ d.len <= s.buffer1_size
            /\ mem[Ctx(t)]["buffer1"] = Data(d)
  BY CommittedAnswer
<1>2. PICK fw, offset, n, d :
        /\ fw = s.firmware_id /\ offset = s.offset /\ n = out[t].size
        /\ d = Slice(fw, at, len)
  OBVIOUS
<1>3. /\ fw \in DOMAIN Images /\ fw \in Nat /\ at % UINT32 = offset
      /\ n = d.len /\ n <= s.buffer1_size /\ mem[Ctx(t)]["buffer1"] = Data(d)
  BY <1>1, <1>2
<1>4. /\ d = Bytes(fw, at, n) /\ n \in Nat
      /\ n > 0 => at + n <= Images[fw]
  BY <1>2, <1>3, SliceIs
<1>5. /\ offset \in Nat /\ offset < UINT32 /\ UINT32 \in Nat /\ UINT32 > 0
      /\ Images[fw] \in Nat /\ Images[fw] < UINT32
  <2>1. Ctx(t) \in Contexts /\ s \in Session
    BY OwnState DEF ResultsInv, LockInv
  <2>2. Images[fw] \in Nat
    BY <1>3, SdkAssumption
  <2> QED
    BY <1>2, <1>3, <2>1, <2>2, UINT32Assumption DEF OffsetsFit, OffsetFits, Session, ImagesFit
<1>6. ChunkBytes(Ctx(t)) = BytesOf(d)
  <2>1. PICK f : f = mem[Ctx(t)]["buffer1"]
    OBVIOUS
  <2>2. f.kind = "data" /\ f.body.items = <<d>>
    BY <1>3, <2>1 DEF Data, Scalar
  <2> QED
    BY <2>1, <2>2 DEF ChunkBytes
<1>7. /\ ChunkBytes(Ctx(t)) = BytesOf(Bytes(fw, offset, n))
      /\ n > 0 => offset + n <= Images[fw]
      /\ (offset + n) % UINT32 = offset + n
  <2>1. CASE n = 0
    <3>1. BytesOf(d) = <<>> /\ BytesOf(Bytes(fw, offset, n)) = <<>>
      BY <1>3, <1>4, <1>5, <2>1, NoBytes
    <3> QED
      BY <1>5, <1>6, <2>1, <3>1
  <2>2. CASE n > 0
    <3>1. offset = at
      BY <1>3, <1>4, <1>5, <2>2
    <3>2. offset + n <= Images[fw] /\ offset + n < UINT32 /\ offset + n \in Nat
      BY <1>4, <1>5, <2>2, <3>1
    <3>3. (offset + n) % UINT32 = offset + n
      BY <1>5, <3>2
    <3> QED
      BY <1>4, <1>6, <3>1, <3>2, <3>3
  <2> QED
    BY <1>4, <2>1, <2>2
<1> QED
  BY <1>2, <1>3, <1>4, <1>7

-----------------------------------------------------------------------------
(* How a step changes what the application has of an image.                *)

(* The thread holds a chunk of the context that it has not yet written.    *)
Holds(t, c) == IsChunk(t) /\ Ctx(t) = c /\ out[t].output

Quiet(c) ==
  /\ ImageOf(c)' = ImageOf(c)
  /\ dl'[c] = dl[c] \/ dl'[c] = [dl[c] EXCEPT !.valid = FALSE, !.lock = FALSE]

Opens(c) ==
  \E t \in Threads :
    /\ InitializeStarts(t) /\ Ctx(t) = c
    /\ dl'[c] = NewSession(call[t])
    /\ ImageOf(c)' = <<>>

Commits(c) ==
  \E t \in Threads :
    /\ CommitChunk(t) /\ Ctx(t) = c
    /\ dl'[c] = [dl[c] EXCEPT !.offset = (@ + out[t].size) % UINT32]
    /\ ImageOf(c)' = ImageOf(c) \o ChunkBytes(c)

Still(c) == dl'[c] = dl[c] /\ ImageOf(c)' = ImageOf(c)

LEMMA ImageKept ==
  ASSUME NEW c, flash'[c] = flash[c],
         \A t \in Threads : Holds(t, c)' <=> Holds(t, c),
         (\E t \in Threads : Holds(t, c)) => mem'[c]["buffer1"] = mem[c]["buffer1"]
  PROVE  ImageOf(c)' = ImageOf(c)
<1>1. Pending(c) = IF \E t \in Threads : Holds(t, c) THEN ChunkBytes(c) ELSE <<>>
  BY DEF Pending, Holds
<1>2. Pending(c)' = IF \E t \in Threads : Holds(t, c)' THEN ChunkBytes(c)' ELSE <<>>
  BY DEF Pending, Holds
<1>3. CASE \E t \in Threads : Holds(t, c)
  <2>1. ChunkBytes(c)' = ChunkBytes(c)
    BY <1>3 DEF ChunkBytes
  <2> QED
    BY <1>1, <1>2, <1>3, <2>1 DEF ImageOf
<1>4. CASE ~\E t \in Threads : Holds(t, c)
  BY <1>1, <1>2, <1>4 DEF ImageOf
<1> QED
  BY <1>3, <1>4

(* Nothing is held: what the application has is what it has written.       *)
LEMMA NothingHeld ==
  ASSUME DataTypes, NEW c \in Contexts, \A t \in Threads : ~Holds(t, c)
  PROVE  ImageOf(c) = flash[c]
<1>1. flash[c] \in ByteString
  BY DEF DataTypes, AppTypes, ByteString
<1>2. Pending(c) = <<>>
  BY DEF Pending, Holds
<1> QED
  BY <1>1, <1>2, ConcatEmptySeq DEF ImageOf, ByteString

(* Only one thread gets chunks of a context.                               *)
LEMMA OneHolder ==
  ASSUME OneDownloader, ResultsInv, NEW t \in Threads, pc[t] # "idle",
         call[t].op \in DownloadOps, NEW u \in Threads, Holds(u, Ctx(t))
  PROVE  u = t /\ IsChunk(t) /\ pc[t] \in Finishing
<1>1. IsChunk(u) /\ pc[u] \in Finishing /\ Ctx(u) = Ctx(t)
  BY DEF ResultsInv, ReplyInv, CodeInvariant, HandedOut, Holds
<1>2. call[t] \in CallsOf[t] /\ call[u] \in CallsOf[u]
  BY <1>1 DEF ResultsInv, ExchangeInv, CallsChosen, Finishing
<1>3. u = t
  BY <1>1, <1>2 DEF OneDownloader, DownloadOps, IsChunk, Ctx
<1> QED
  BY <1>1, <1>3

SessionStep(t) == InitializeStarts(t) \/ Finish(t) \/ CommitChunk(t)

(* The other steps of a call.                                              *)
LEMMA PlainStepTouches ==
  ASSUME LockTypes, DataTypes, NEW t \in Threads, InnerStep(t), ~SessionStep(t)
  PROVE  /\ UNCHANGED <<dl, flash>>
         /\ \A u \in Threads : out'[u].output = out[u].output
         /\ pc[t] \in Finishing => UNCHANGED mem
         /\ ~IsChunk(t) => \A c \in Contexts : mem'[c]["buffer1"] = mem[c]["buffer1"]
<1>1. /\ out \in [Threads -> Outcome] /\ mem \in [Contexts -> [Buffer -> Frame]]
      /\ pc[t] \in {"unlock", "returned"} => ~InnerStep(t)
  <2>1. ASSUME pc[t] \in {"unlock", "returned"} PROVE ~InnerStep(t)
    BY <2>1 DEF InnerStep, RejectArguments, RejectNoSession, InitializeTooSmall, InitializeBusy,
         InitializeStarts, InitializeCall, Finish, CreateRequest, Forward, Bail, CheckPoint,
         DrawNonce, RandomFails, Seal, Send, Deliver, SendFails, OpenHeader, NotAMessage, Open,
         ParseError, ParseSimple, ParseChunk, CommitMismatch, CommitSimple, CommitChunk, Leave,
         Proceeds
  <2> QED
    BY <2>1, OwnState
<1>2. pc[t] \in Finishing => pc[t] = "leave"
  BY <1>1 DEF Finishing
<1> USE <1>1 DEF Goto, Return, ctxVars, callVars, appVars
<1>3. CASE ParseSimple(t)
  <2>1. UNCHANGED <<dl, flash, mem>> /\ pc[t] = "parse_response"
    BY <1>3 DEF ParseSimple, Proceeds
  <2>2. \/ \E i, n : out' = [out EXCEPT ![t].item = i, ![t].size = n]
        \/ \E v : out' = [out EXCEPT ![t].vals = v]
    BY <1>3 DEF ParseSimple
  <2>3. ASSUME NEW u \in Threads PROVE out'[u].output = out[u].output
    <3>1. out[u] \in Outcome
      OBVIOUS
    <3>2. CASE \E i, n : out' = [out EXCEPT ![t].item = i, ![t].size = n]
      BY <3>1, <3>2 DEF Outcome
    <3>3. CASE \E v : out' = [out EXCEPT ![t].vals = v]
      BY <3>1, <3>3 DEF Outcome
    <3> QED
      BY <2>2, <3>2, <3>3
  <2> QED
    BY <2>1, <2>3
<1>4. CASE ParseChunk(t)
  <2>1. UNCHANGED <<dl, flash>> /\ pc[t] = "parse_response" /\ IsChunk(t)
    BY <1>4 DEF ParseChunk, Proceeds
  <2>2. \A u \in Threads : out'[u].output = out[u].output
    BY <1>4 DEF ParseChunk, Outcome
  <2> QED
    BY <1>2, <2>1, <2>2
<1>5. CASE \/ RejectArguments(t) \/ RejectNoSession(t) \/ InitializeTooSmall(t)
           \/ InitializeBusy(t) \/ Bail(t) \/ Leave(t) \/ CommitMismatch(t) \/ CommitSimple(t)
  BY <1>5 DEF RejectArguments, RejectNoSession, InitializeTooSmall, InitializeBusy, Bail, Leave,
              CommitMismatch, CommitSimple
<1>6. CASE DrawNonce(t) \/ RandomFails(t)
  BY <1>6 DEF DrawNonce, RandomFails
<1>7. CASE Forward(t) \/ Send(t) \/ SendFails(t)
  BY <1>7 DEF Forward, Send, Posted, SendFails
<1>8. CASE OpenHeader(t) \/ NotAMessage(t) \/ ParseError(t)
  BY <1>8 DEF OpenHeader, NotAMessage, ParseError
<1>9. ASSUME NEW b \in {OuterBuffer(t), InnerBuffer(t)}, NEW f, Write(Ctx(t), b, f)
      PROVE  ~IsChunk(t) => \A c \in Contexts : mem'[c]["buffer1"] = mem[c]["buffer1"]
  BY <1>9 DEF Write, OuterBuffer, InnerBuffer, Buffer
<1>10. CASE CreateRequest(t) \/ Seal(t) \/ Deliver(t) \/ Open(t)
  <2>1. /\ UNCHANGED <<dl, flash, out>> /\ pc[t] \in {"body", "seal", "wait", "open"}
    BY <1>10 DEF CreateRequest, Seal, Deliver, Open
  <2>2. \/ UNCHANGED mem
        \/ \E b \in {OuterBuffer(t), InnerBuffer(t)} : \E f : Write(Ctx(t), b, f)
    BY <1>10 DEF CreateRequest, Seal, Deliver, Open
  <2> QED
    BY <1>2, <1>9, <2>1, <2>2
<1> QED
  BY <1>3, <1>4, <1>5, <1>6, <1>7, <1>8, <1>10 DEF InnerStep, SessionStep

LEMMA PlainStepIsQuiet ==
  ASSUME OneDownloader, ResultsInv, NEW t \in Threads, InnerStep(t), ~SessionStep(t),
         NEW c \in Contexts
  PROVE  Quiet(c)
<1>1. LockTypes /\ DataTypes
  BY DEF ResultsInv, LockInv
<1>2. /\ UNCHANGED <<dl, flash>>
      /\ \A u \in Threads : out'[u].output = out[u].output
      /\ pc[t] \in Finishing => UNCHANGED mem
      /\ ~IsChunk(t) => mem'[c]["buffer1"] = mem[c]["buffer1"]
  BY <1>1, PlainStepTouches
<1>3. Inside(t) /\ UNCHANGED call
  BY InnerStepMoves
<1>4. \A u \in Threads : Holds(u, c)' <=> Holds(u, c)
  BY <1>2, <1>3 DEF Holds, IsChunk, Ctx
<1>5. ASSUME NEW u \in Threads, Holds(u, c) PROVE mem'[c]["buffer1"] = mem[c]["buffer1"]
  <2>1. CASE Ctx(t) # c
    BY <1>1, <2>1, InnerStepIsLocal
  <2>2. CASE Ctx(t) = c /\ IsChunk(t)
    <3>1. pc[t] \in Finishing
      BY <1>3, <1>5, <2>2, OneHolder DEF Inside, DownloadOps, IsChunk
    <3> QED
      BY <1>2, <3>1
  <2> QED
    BY <1>2, <2>1, <2>2
<1>6. ImageOf(c)' = ImageOf(c)
  BY <1>2, <1>4, <1>5, ImageKept
<1> QED
  BY <1>2, <1>6 DEF Quiet

LEMMA InitializeOpens ==
  ASSUME OneDownloader, ResultsInv, DataTypes', NEW t \in Threads, InitializeStarts(t),
         NEW c \in Contexts
  PROVE  Quiet(c) \/ (c = Ctx(t) /\ Opens(c))
<1>1. LockTypes /\ DataTypes
  BY DEF ResultsInv, LockInv
<1>2. /\ pc[t] = "body" /\ call[t].op = "download_initialize"
      /\ dl' = [dl EXCEPT ![Ctx(t)] = NewSession(call[t])]
      /\ flash' = [flash EXCEPT ![Ctx(t)] = <<>>]
      /\ UNCHANGED <<call, out, mem>>
  BY DEF InitializeStarts, InitializeCall, callVars
<1>3. dl \in [Contexts -> Session] /\ flash \in [Contexts -> ByteString] /\ Ctx(t) \in Contexts
  BY <1>1, OwnState DEF DataTypes, AppTypes, ByteString
<1>4. \A u \in Threads : Holds(u, c)' <=> Holds(u, c)
  BY <1>2 DEF Holds, IsChunk, Ctx
<1>5. CASE c # Ctx(t)
  <2>1. ImageOf(c)' = ImageOf(c)
    BY <1>2, <1>3, <1>4, <1>5, ImageKept
  <2> QED
    BY <1>2, <1>3, <1>5, <2>1 DEF Quiet
<1>6. CASE c = Ctx(t)
  <2>1. \A u \in Threads : ~Holds(u, c)
    BY <1>2, <1>6, OneHolder DEF DownloadOps, IsChunk
  <2>2. ImageOf(c)' = flash'[c]
    <3>1. \A u \in Threads : ~Holds(u, c)'
      BY <1>4, <2>1
    <3>2. Pending(c)' = <<>>
      BY <3>1 DEF Pending, Holds
    <3>3. flash'[c] \in ByteString
      BY DEF DataTypes, AppTypes, ByteString
    <3> QED
      BY <3>2, <3>3, ConcatEmptySeq DEF ImageOf, ByteString
  <2>3. flash'[c] = <<>> /\ dl'[c] = NewSession(call[t])
    BY <1>2, <1>3, <1>6
  <2> QED
    BY <1>6, <2>2, <2>3 DEF Opens
<1> QED
  BY <1>5, <1>6

LEMMA FinishIsQuiet ==
  ASSUME ResultsInv, NEW t \in Threads, Finish(t), NEW c \in Contexts
  PROVE  Quiet(c)
<1>1. /\ dl' = [dl EXCEPT ![Ctx(t)].valid = FALSE, ![Ctx(t)].lock = FALSE]
      /\ UNCHANGED <<flash, call, out, mem>>
  BY DEF Finish, callVars, appVars
<1>2. dl \in [Contexts -> Session] /\ Ctx(t) \in Contexts
  BY OwnState DEF ResultsInv, LockInv
<1>3. \A u \in Threads : Holds(u, c)' <=> Holds(u, c)
  BY <1>1 DEF Holds, IsChunk, Ctx
<1>4. ImageOf(c)' = ImageOf(c)
  BY <1>1, <1>3, ImageKept
<1>5. dl'[c] = dl[c] \/ dl'[c] = [dl[c] EXCEPT !.valid = FALSE, !.lock = FALSE]
  BY <1>1, <1>2
<1> QED
  BY <1>4, <1>5 DEF Quiet

LEMMA ChunkCommits ==
  ASSUME OneDownloader, ResultsInv, NEW t \in Threads, CommitChunk(t), NEW c \in Contexts
  PROVE  Quiet(c) \/ (c = Ctx(t) /\ Commits(c))
<1>1. LockTypes /\ DataTypes
  BY DEF ResultsInv, LockInv
<1>2. /\ pc[t] = "commit" /\ IsChunk(t) /\ Ctx(t) \in Contexts
      /\ dl' = [dl EXCEPT ![Ctx(t)] =
                  [dl[Ctx(t)] EXCEPT !.offset = (@ + out[t].size) % UINT32]]
      /\ UNCHANGED <<flash, call, mem>>
  BY <1>1, OwnState DEF CommitChunk, Proceeds, appVars
<1>3. /\ out'[t].output /\ \A u \in Threads : u # t => out'[u] = out[u]
  BY <1>1, OwnState DEF CommitChunk, Outcome
<1>4. dl \in [Contexts -> Session] /\ flash \in [Contexts -> ByteString]
  BY <1>1, OwnState DEF DataTypes, AppTypes, ByteString
<1>5. CASE c # Ctx(t)
  <2>1. \A u \in Threads : Holds(u, c)' <=> Holds(u, c)
    BY <1>2, <1>3, <1>5 DEF Holds, IsChunk, Ctx
  <2>2. ImageOf(c)' = ImageOf(c)
    BY <1>2, <2>1, ImageKept
  <2> QED
    BY <1>2, <1>4, <1>5, <2>2 DEF Quiet
<1>6. CASE c = Ctx(t)
  <2>1. \A u \in Threads : ~Holds(u, c)
    BY <1>2, <1>6, OneHolder DEF DownloadOps, IsChunk, Finishing
  <2>2. ImageOf(c) = flash[c]
    BY <1>1, <2>1, NothingHeld
  <2>3. ImageOf(c)' = flash[c] \o ChunkBytes(c)
    <3>1. Holds(t, c)'
      BY <1>2, <1>3, <1>6 DEF Holds, IsChunk, Ctx
    <3>2. Pending(c)' = ChunkBytes(c)'
      BY <3>1 DEF Pending, Holds
    <3>3. ChunkBytes(c)' = ChunkBytes(c)
      BY <1>2 DEF ChunkBytes
    <3> QED
      BY <1>2, <3>2, <3>3 DEF ImageOf
  <2>4. dl'[c] = [dl[c] EXCEPT !.offset = (@ + out[t].size) % UINT32]
    BY <1>2, <1>4, <1>6
  <2> QED
    BY <1>6, <2>2, <2>3, <2>4 DEF Commits
<1> QED
  BY <1>5, <1>6

(* The application moves what it holds to its flash.                       *)
LEMMA ConsumeIsQuiet ==
  ASSUME OneDownloader, ResultsInv, DataTypes', NEW t \in Threads, Consume(t),
         NEW c \in Contexts
  PROVE  Quiet(c)
<1>1. LockTypes /\ DataTypes
  BY DEF ResultsInv, LockInv
<1>2. /\ pc[t] = "returned" /\ UNCHANGED <<dl, mem>>
      /\ flash' = IF IsChunk(t) /\ ret[t] = "NONE" /\ out[t].output
                  THEN [flash EXCEPT ![Ctx(t)] = @ \o ChunkBytes(Ctx(t))] ELSE flash
      /\ call' = [call EXCEPT ![t] = NoCall]
      /\ out' = [out EXCEPT ![t] = NoOut]
  BY DEF Consume, ctxVars
<1>3. /\ out[t].output => IsChunk(t)
      /\ IsChunk(t) => (ret[t] = "NONE" <=> out[t].output)
  BY <1>2 DEF ResultsInv, ReplyInv, CodeInvariant, HandedOut, Finishing
<1>4. /\ flash \in [Contexts -> ByteString] /\ call \in [Threads -> CallRecord]
      /\ out \in [Threads -> Outcome]
  BY <1>1, OwnState DEF LockTypes, DataTypes, AppTypes, ByteString
<1>5. /\ ~Holds(t, c)'
      /\ \A u \in Threads : u # t => (Holds(u, c)' <=> Holds(u, c))
  BY <1>2, <1>4 DEF Holds, IsChunk, Ctx, NoOut
<1>6. CASE Holds(t, c)
  <2>1. flash'[c] = flash[c] \o ChunkBytes(c)
    BY <1>2, <1>3, <1>4, <1>6 DEF Holds
  <2>2. \A u \in Threads : Holds(u, c) => u = t
    <3>1. c = Ctx(t) /\ IsChunk(t)
      BY <1>6 DEF Holds
    <3> QED
      BY <1>2, <3>1, OneHolder DEF DownloadOps, IsChunk
  <2>3. ImageOf(c) = flash[c] \o ChunkBytes(c)
    BY <1>6 DEF ImageOf, Pending, Holds
  <2>4. ImageOf(c)' = flash'[c]
    <3>1. \A u \in Threads : ~Holds(u, c)'
      BY <1>5, <2>2
    <3>2. Pending(c)' = <<>>
      BY <3>1 DEF Pending, Holds
    <3>3. flash'[c] \in ByteString
      BY DEF DataTypes, AppTypes, ByteString
    <3> QED
      BY <3>2, <3>3, ConcatEmptySeq DEF ImageOf, ByteString
  <2> QED
    BY <1>2, <2>1, <2>3, <2>4 DEF Quiet
<1>7. CASE ~Holds(t, c)
  <2>1. flash'[c] = flash[c]
    BY <1>2, <1>4, <1>7 DEF Holds
  <2>2. \A u \in Threads : Holds(u, c)' <=> Holds(u, c)
    BY <1>5, <1>7
  <2>3. ImageOf(c)' = ImageOf(c)
    BY <1>2, <2>1, <2>2, ImageKept
  <2> QED
    BY <1>2, <2>3 DEF Quiet
<1> QED
  BY <1>6, <1>7

(* Every step: one context may move, the others are still.                 *)
Moves(c) == Quiet(c) \/ Opens(c) \/ Commits(c)

OneMoves == \E d \in Contexts : Moves(d) /\ \A c \in Contexts : c # d => Still(c)

LEMMA DownloadSteps ==
  ASSUME OneDownloader, ResultsInv, DataTypes', [Next]_vars
  PROVE  OneMoves
<1>1. LockTypes /\ DataTypes /\ dl \in [Contexts -> Session]
  BY DEF ResultsInv, LockInv, DataTypes, MemTypes
<1>2. ASSUME NEW t \in Threads, InnerStep(t) PROVE OneMoves
  <2>1. Ctx(t) \in Contexts
    BY <1>1, ContextOf
  <2>2. \A c \in Contexts : Quiet(c) \/ (c = Ctx(t) /\ Moves(c))
    BY <1>2, PlainStepIsQuiet, InitializeOpens, FinishIsQuiet, ChunkCommits
       DEF SessionStep, Moves
  <2>3. ASSUME NEW c \in Contexts, c # Ctx(t) PROVE Still(c)
    BY <1>1, <1>2, <2>2, <2>3, InnerStepTouches DEF Still, Quiet
  <2> QED
    BY <2>1, <2>2, <2>3 DEF OneMoves, Moves
<1>3. ASSUME UNCHANGED dl, \A c \in Contexts : ImageOf(c)' = ImageOf(c) PROVE OneMoves
  <2>1. Contexts # {}
    BY SdkAssumption
  <2> QED
    BY <1>3, <2>1 DEF OneMoves, Moves, Quiet, Still
<1>4. ASSUME UNCHANGED <<flash, call, out, mem>>, NEW c \in Contexts
      PROVE  ImageOf(c)' = ImageOf(c)
  <2>1. \A t \in Threads : Holds(t, c)' <=> Holds(t, c)
    BY <1>4 DEF Holds, IsChunk, Ctx
  <2> QED
    BY <1>4, <2>1, ImageKept
<1>5. ASSUME NEW t \in Threads, Begin(t) PROVE OneMoves
  <2>1. PICK k \in CallsOf[t] : CallRejected(t, k) \/ CallRefused(t, k) \/ CallLocks(t, k)
    BY <1>5 DEF Begin
  <2>2. /\ pc[t] = "idle" /\ UNCHANGED <<dl, flash, out, mem>>
        /\ call' = [call EXCEPT ![t] = k]
    BY <2>1 DEF CallRejected, CallRefused, CallLocks, Calls, Refuse, ctxVars
  <2>3. ~out[t].output
    BY <2>2 DEF ResultsInv, ReplyInv, CodeInvariant, HandedOut, Finishing
  <2>4. ASSUME NEW c \in Contexts PROVE ImageOf(c)' = ImageOf(c)
    <3>1. \A u \in Threads : Holds(u, c)' <=> Holds(u, c)
      BY <1>1, <2>2, <2>3 DEF Holds, IsChunk, Ctx, LockTypes
    <3> QED
      BY <2>2, <3>1, ImageKept
  <2> QED
    BY <1>3, <2>2, <2>4
<1>6. ASSUME NEW d \in Contexts, NEW w \in WorkBuffers, SdkInitialize(d, w) PROVE OneMoves
  <2>1. /\ dl' = [dl EXCEPT ![d].valid = FALSE, ![d].lock = FALSE]
        /\ UNCHANGED <<flash, call, out, mem>>
    BY <1>6 DEF SdkInitialize, callVars, appVars
  <2>2. /\ dl'[d] = [dl[d] EXCEPT !.valid = FALSE, !.lock = FALSE]
        /\ \A c \in Contexts : c # d => dl'[c] = dl[c]
    BY <1>1, <2>1
  <2> QED
    BY <1>4, <2>1, <2>2 DEF OneMoves, Moves, Quiet, Still
<1>7. ASSUME NEW t \in Threads, Unlock(t) PROVE OneMoves
  BY <1>3, <1>4, <1>7 DEF Unlock, callVars, appVars
<1>8. ASSUME NEW t \in Threads, Consume(t) PROVE OneMoves
  <2>1. \A c \in Contexts : ImageOf(c)' = ImageOf(c)
    BY <1>8, ConsumeIsQuiet DEF Quiet
  <2>2. UNCHANGED dl
    BY <1>8 DEF Consume, ctxVars
  <2> QED
    BY <1>3, <2>1, <2>2
<1>9. CASE ServeNew \/ ServeAgain \/ UNCHANGED vars
  BY <1>3, <1>4, <1>9 DEF ServeNew, ServeAgain, Serve, vars, ctxVars, callVars
<1> QED
  BY <1>2, <1>5, <1>6, <1>7, <1>8, <1>9 DEF Next, Step, InnerStep

LEMMA EveryContextMoves ==
  ASSUME OneDownloader, ResultsInv, DataTypes', [Next]_vars, NEW c \in Contexts
  PROVE  Moves(c)
  BY DownloadSteps DEF OneMoves, Moves, Still, Quiet

-----------------------------------------------------------------------------
(* The invariant is kept.                                                  *)

LEMMA DownloadInvInit == Init => DownloadInv
<1> SUFFICES ASSUME Init PROVE DownloadInv
  OBVIOUS
<1>1. \A c \in Contexts : dl[c] = NoSession
  BY DEF Init
<1>2. OpenWhileFetching
  BY DEF Init, OpenWhileFetching, Fetching, Handling
<1>3. OffsetsFit
  BY <1>1, UINT32Assumption DEF OffsetsFit, OffsetFits, NoSession
<1>4. ImageIntact
  BY <1>1 DEF ImageIntact, NoSession
<1> QED
  BY <1>2, <1>3, <1>4, SessionLockInit DEF DownloadInv

LEMMA FetchingStarts ==
  ASSUME LockTypes, NEW t \in Threads, InnerStep(t), IsChunk(t), pc'[t] \in Fetching
  PROVE  ~SessionStep(t) /\ (pc[t] \in Fetching \/ dl[Ctx(t)].valid)
<1> USE DEF LockTypes, Fetching, Handling, Goto, Return
<1>1. ~SessionStep(t)
  BY DEF SessionStep, InitializeStarts, InitializeCall, Finish, CommitChunk, IsChunk
<1>2. CASE CreateRequest(t)
  BY <1>1, <1>2 DEF CreateRequest, NoSessionFor
<1>3. CASE \/ RejectArguments(t) \/ RejectNoSession(t) \/ InitializeTooSmall(t)
           \/ InitializeBusy(t) \/ Bail(t) \/ Leave(t) \/ CommitMismatch(t) \/ CommitSimple(t)
  BY <1>3 DEF RejectArguments, RejectNoSession, InitializeTooSmall, InitializeBusy, Bail, Leave,
              CommitMismatch, CommitSimple
<1>4. CASE Forward(t)
  BY <1>4 DEF Forward, IsChunk
<1>5. CASE \/ DrawNonce(t) \/ RandomFails(t) \/ Seal(t) \/ Send(t) \/ Deliver(t) \/ SendFails(t)
           \/ OpenHeader(t) \/ NotAMessage(t) \/ Open(t)
           \/ ParseError(t) \/ ParseSimple(t) \/ ParseChunk(t)
  <2>1. pc[t] \in Fetching
    BY <1>5 DEF DrawNonce, RandomFails, Seal, Send, Deliver, SendFails, OpenHeader, NotAMessage,
                Open, ParseError, ParseSimple, ParseChunk, Proceeds
  <2> QED
    BY <1>1, <2>1
<1> QED
  BY <1>1, <1>2, <1>3, <1>4, <1>5 DEF InnerStep, SessionStep

LEMMA OpenWhileFetchingStep ==
  ASSUME ResultsInv, OpenWhileFetching, [Next]_vars
  PROVE  OpenWhileFetching'
<1>0. LockTypes /\ DataTypes /\ MutualExclusion
  BY DEF ResultsInv, LockInv
<1>1. /\ LockTypes /\ DataTypes /\ MutualExclusion
      /\ pc \in [Threads -> ControlPoint] /\ call \in [Threads -> CallRecord]
      /\ dl \in [Contexts -> Session] /\ \A u \in Threads : Ctx(u) \in Contexts
  BY <1>0, ContextOf DEF LockTypes, DataTypes, MemTypes
<1> SUFFICES ASSUME NEW u \in Threads, IsChunk(u)', pc'[u] \in Fetching
             PROVE  dl'[Ctx(u)'].valid
  BY DEF OpenWhileFetching
<1>2. ASSUME pc'[u] = pc[u], call'[u] = call[u], dl'[Ctx(u)] = dl[Ctx(u)]
      PROVE  dl'[Ctx(u)'].valid
  BY <1>2 DEF OpenWhileFetching, IsChunk, Ctx
<1>3. ASSUME NEW t \in Threads, InnerStep(t) PROVE dl'[Ctx(u)'].valid
  <2>1. UNCHANGED call /\ Inside(t)
    BY <1>3, InnerStepMoves
  <2>2. CASE u = t
    <3>1. ~SessionStep(t) /\ (pc[t] \in Fetching \/ dl[Ctx(t)].valid)
      BY <1>1, <1>3, <2>1, <2>2, FetchingStarts DEF IsChunk
    <3>2. UNCHANGED dl
      BY <1>1, <1>3, <3>1, PlainStepTouches
    <3> QED
      BY <2>1, <2>2, <3>1, <3>2 DEF OpenWhileFetching, IsChunk, Ctx
  <2>3. CASE u # t
    <3>1. pc'[u] = pc[u]
      BY <1>1, <1>3, <2>3, InnerStepIsLocal
    <3>2. Inside(u)
      BY <3>1 DEF Inside, Fetching, Handling
    <3>3. Ctx(u) # Ctx(t)
      BY <1>1, <2>1, <2>3, <3>2 DEF MutualExclusion
    <3> QED
      BY <1>1, <1>2, <1>3, <2>1, <3>1, <3>3, InnerStepTouches
  <2> QED
    BY <2>2, <2>3
<1>4. ASSUME NEW t \in Threads, Begin(t) PROVE dl'[Ctx(u)'].valid
  <2>1. PICK k \in CallsOf[t] : CallRejected(t, k) \/ CallRefused(t, k) \/ CallLocks(t, k)
    BY <1>4 DEF Begin
  <2>2. /\ UNCHANGED dl /\ call' = [call EXCEPT ![t] = k]
        /\ \E l \in {"body", "returned"} : pc' = [pc EXCEPT ![t] = l]
    BY <2>1 DEF CallRejected, CallRefused, CallLocks, Calls, Refuse, ctxVars, Goto
  <2>3. u # t
    BY <1>1, <2>2 DEF Fetching, Handling
  <2> QED
    BY <1>1, <1>2, <2>2, <2>3
<1>5. ASSUME NEW t \in Threads, Unlock(t) \/ Consume(t) PROVE dl'[Ctx(u)'].valid
  <2>1. /\ UNCHANGED dl /\ \A v \in Threads : v # t => call'[v] = call[v]
        /\ \E l \in {"returned", "idle"} : pc' = [pc EXCEPT ![t] = l]
    BY <1>1, <1>5 DEF Unlock, Consume, ctxVars, callVars, Goto
  <2>2. u # t
    BY <1>1, <2>1 DEF Fetching, Handling
  <2> QED
    BY <1>1, <1>2, <2>1, <2>2
<1>6. ASSUME NEW c \in Contexts, NEW w \in WorkBuffers, SdkInitialize(c, w)
      PROVE  dl'[Ctx(u)'].valid
  <2>1. /\ UNCHANGED <<pc, call>> /\ \A t \in Threads : pc[t] # "idle" => Ctx(t) # c
        /\ dl' = [dl EXCEPT ![c].valid = FALSE, ![c].lock = FALSE]
    BY <1>6 DEF SdkInitialize, Uses, callVars
  <2>2. pc[u] # "idle"
    BY <2>1 DEF Fetching, Handling
  <2> QED
    BY <1>1, <1>2, <2>1, <2>2
<1>7. CASE ServeNew \/ ServeAgain \/ UNCHANGED vars
  BY <1>2, <1>7 DEF ServeNew, ServeAgain, Serve, vars, ctxVars, callVars
<1> QED
  BY <1>3, <1>4, <1>5, <1>6, <1>7 DEF Next, Step, InnerStep

(* The offset and the bytes it stands for.                                 *)
ContextInv(c) ==
  /\ OffsetFits(c)
  /\ dl[c].valid => ImageOf(c) = BytesOf(Bytes(dl[c].firmware_id, 0, dl[c].offset))

LEMMA ContextInvStep ==
  ASSUME OneDownloader, ImagesFit, ResultsInv, DownloadInv, DataTypes', [Next]_vars,
         NEW c \in Contexts
  PROVE  ContextInv(c)'
<1>1. LockTypes /\ DataTypes /\ dl[c] \in Session /\ dl'[c] \in Session
  BY DEF ResultsInv, LockInv, DataTypes, MemTypes
<1>2. ContextInv(c) /\ OffsetsFit
  BY DEF DownloadInv, OffsetsFit, ImageIntact, ContextInv
<1>3. CASE Quiet(c)
  <2>1. /\ dl'[c].offset = dl[c].offset /\ dl'[c].firmware_id = dl[c].firmware_id
        /\ dl'[c].valid => dl[c].valid
    BY <1>1, <1>3 DEF Quiet, Session
  <2> QED
    BY <1>2, <1>3, <2>1 DEF Quiet, ContextInv, OffsetFits
<1>4. CASE Opens(c)
  <2>1. PICK t \in Threads : dl'[c] = NewSession(call[t]) /\ ImageOf(c)' = <<>>
    BY <1>4 DEF Opens
  <2>2. dl'[c].offset = 0
    BY <2>1 DEF NewSession
  <2>3. BytesOf(Bytes(dl'[c].firmware_id, 0, 0)) = <<>>
    BY <1>1, NoBytes DEF Session
  <2>4. \A f \in DOMAIN Images : Images[f] \in Nat
    BY SdkAssumption
  <2> QED
    BY <2>1, <2>2, <2>3, <2>4, UINT32Assumption DEF ContextInv, OffsetFits
<1>5. CASE Commits(c)
  <2>1. PICK t \in Threads :
          /\ CommitChunk(t) /\ Ctx(t) = c
          /\ dl'[c] = [dl[c] EXCEPT !.offset = (@ + out[t].size) % UINT32]
          /\ ImageOf(c)' = ImageOf(c) \o ChunkBytes(c)
    BY <1>5 DEF Commits
  <2>2. PICK fw, offset, n : fw = dl[c].firmware_id /\ offset = dl[c].offset /\ n = out[t].size
    OBVIOUS
  <2>3. /\ fw \in DOMAIN Images /\ fw \in Nat /\ n \in Nat
        /\ ChunkBytes(c) = BytesOf(Bytes(fw, offset, n))
        /\ n > 0 => offset + n <= Images[fw]
        /\ (offset + n) % UINT32 = offset + n
    BY <1>2, <2>1, <2>2, CommittedChunk
  <2>4. dl[c].valid
    BY <2>1 DEF DownloadInv, OpenWhileFetching, CommitChunk, Proceeds, Fetching, Handling
  <2>5. dl'[c].firmware_id = fw /\ dl'[c].offset = offset + n
    BY <1>1, <2>1, <2>2, <2>3 DEF Session
  <2>6. /\ offset \in Nat /\ offset < UINT32 /\ offset <= Images[fw]
        /\ Images[fw] \in Nat /\ Images[fw] < UINT32
    <3>1. Images[fw] \in Nat /\ Images[fw] < UINT32
      BY <2>3, SdkAssumption DEF ImagesFit
    <3> QED
      BY <1>1, <1>2, <2>2, <2>3, <2>4, <3>1 DEF ContextInv, OffsetFits, Session
  <2>7. offset + n < UINT32 /\ offset + n <= Images[fw]
    BY <2>3, <2>6, UINT32Assumption
  <2>8. ImageOf(c)' = BytesOf(Bytes(fw, 0, offset + n))
    <3>1. ImageOf(c) = BytesOf(Bytes(fw, 0, offset))
      BY <1>2, <2>2, <2>4 DEF ContextInv
    <3>2. BytesOf(Bytes(fw, 0, offset)) \o BytesOf(Bytes(fw, offset, n))
            = BytesOf(Bytes(fw, 0, offset + n))
      BY <2>3, <2>6, PrefixGrows
    <3> QED
      BY <2>1, <2>3, <3>1, <3>2
  <2> QED
    BY <2>5, <2>7, <2>8 DEF ContextInv, OffsetFits
<1> QED
  BY <1>3, <1>4, <1>5, EveryContextMoves DEF Moves

LEMMA DownloadInvStep ==
  ASSUME OneDownloader, ImagesFit, ResultsInv, ResultsInv', DownloadInv, [Next]_vars
  PROVE  DownloadInv'
<1>1. SessionLock'
  BY SessionLockStep DEF ResultsInv, LockInv, DownloadInv
<1>2. OpenWhileFetching'
  BY OpenWhileFetchingStep DEF DownloadInv
<1>3. \A c \in Contexts : ContextInv(c)'
  BY ContextInvStep DEF ResultsInv
<1>4. OffsetsFit' /\ ImageIntact'
  BY <1>3 DEF OffsetsFit, ImageIntact, ContextInv
<1> QED
  BY <1>1, <1>2, <1>4 DEF DownloadInv

LEMMA DownloadCorrect ==
  ASSUME OneDownloadContext, OneDownloader, ImagesFit
  PROVE  Spec => [](ResultsInv /\ DownloadInv)
<1>1. Init => ResultsInv /\ DownloadInv
  BY ResultsInvInit, DownloadInvInit
<1>2. ResultsInv /\ DownloadInv /\ [Next]_vars => (ResultsInv /\ DownloadInv)'
  BY ResultsInvStep, DownloadInvStep
<1> QED
  BY <1>1, <1>2, PTL DEF Spec

(* firmups_sdk_firmware_download_get_chunk: while a session is open the    *)
(* application holds the first `offset` bytes of the firmware the session  *)
(* was opened for, each once and in order, whatever replies arrive late,   *)
(* twice, damaged or in answer to another request, whatever fails, and     *)
(* whatever other threads do meanwhile.                                    *)
THEOREM ImagesAreIntact ==
  ASSUME OneDownloadContext, OneDownloader, ImagesFit
  PROVE  Spec => []ImageIntact
<1>1. DownloadInv => ImageIntact
  BY DEF DownloadInv
<1> QED
  BY <1>1, DownloadCorrect, PTL

-----------------------------------------------------------------------------
(* An open session.                                                        *)

(* What commits a chunk moves the offset by what it hands out.             *)
LEMMA CommitAdvances ==
  ASSUME ImagesFit, ResultsInv, DownloadInv, NEW c \in Contexts, Commits(c)
  PROVE  \E n \in Nat :
           LET s == dl[c]
           IN  /\ s.valid /\ s.firmware_id \in DOMAIN Images /\ n <= s.buffer1_size
               /\ dl'[c] = [s EXCEPT !.offset = s.offset + n]
               /\ n > 0 => s.offset + n <= Images[s.firmware_id]
<1>1. PICK t \in Threads :
        /\ CommitChunk(t) /\ Ctx(t) = c
        /\ dl'[c] = [dl[c] EXCEPT !.offset = (@ + out[t].size) % UINT32]
  BY DEF Commits
<1>2. /\ dl[c].firmware_id \in DOMAIN Images
      /\ out[t].size \in Nat /\ out[t].size <= dl[c].buffer1_size
      /\ out[t].size > 0 => dl[c].offset + out[t].size <= Images[dl[c].firmware_id]
      /\ (dl[c].offset + out[t].size) % UINT32 = dl[c].offset + out[t].size
  BY <1>1, CommittedChunk DEF DownloadInv
<1>3. dl[c].valid
  BY <1>1 DEF DownloadInv, OpenWhileFetching, CommitChunk, Proceeds, Fetching, Handling
<1>4. dl'[c] = [dl[c] EXCEPT !.offset = dl[c].offset + out[t].size]
  BY <1>1, <1>2
<1> QED
  BY <1>2, <1>3, <1>4

LEMMA OpensClosed ==
  ASSUME DownloadInv, NEW c \in Contexts, Opens(c)
  PROVE  ~dl[c].valid
  BY DEF Opens, InitializeStarts, DownloadInv, SessionLock

(* The chunk that is counted was copied to the first half of the buffer.   *)
LEMMA CommittedFits ==
  ASSUME ResultsInv, NEW t \in Threads, CommitChunk(t)
  PROVE  out[t].size <= dl[Ctx(t)].buffer1_size
<1>1. pc[t] = "commit" /\ IsChunk(t) /\ "NONE" \in RetRead(t)
  BY DEF CommitChunk, Proceeds
<1>2. /\ LockTypes /\ DataTypes /\ OwnCode(t) /\ Following(t)
      /\ dl[Ctx(t)] \in Session /\ out[t] \in Outcome
  BY OwnState DEF ResultsInv, LockInv, ReplyInv, CodeInvariant
<1>3. ret[t] = "NONE"
  BY <1>1, <1>2, OwnCodeRead DEF Working
<1>4. PICK r \in reps : ParsedAs(t, r.msg.hdr.opcode, Plain(r.msg.body))
  BY <1>1, <1>2, <1>3 DEF Following, ParsedInv, Parsed
<1>5. PICK op, f, size :
        op = r.msg.hdr.opcode /\ f = Plain(r.msg.body) /\ size = dl[Ctx(t)].buffer1_size
  OBVIOUS
<1>6. LET g == operation_parse_get_firmware_response(op, f, size)
      IN  g.code = "NONE" /\ out[t].size = g.data.len
  BY <1>1, <1>4, <1>5 DEF ParsedAs, IsChunk, Ctx
<1>7. ~(out[t].size > size)
  BY <1>6, ChunkCarriesData
<1>8. out[t].size \in Nat /\ size \in Nat
  BY <1>2, <1>5 DEF Outcome, Session
<1> QED
  BY <1>5, <1>7, <1>8

(* What a step does to the session of a context.                           *)
Stays(c) == dl'[c] = dl[c] \/ Advances(c) \/ Ends(c)

LEMMA OwnStepStays ==
  ASSUME ResultsInv, SessionLock, NEW t \in Threads, InnerStep(t),
         NEW c \in Contexts, dl[c].valid
  PROVE  Stays(c)
<1>1. /\ LockTypes /\ DataTypes /\ dl \in [Contexts -> Session]
      /\ out \in [Threads -> Outcome] /\ Ctx(t) \in Contexts
  BY OwnState DEF ResultsInv, LockInv
<1>2. CASE ~SessionStep(t)
  BY <1>1, <1>2, PlainStepTouches DEF Stays
<1>3. CASE InitializeStarts(t)
  <2>1. dl' = [dl EXCEPT ![Ctx(t)] = NewSession(call[t])] /\ ~dl[Ctx(t)].lock
    BY <1>3 DEF InitializeStarts
  <2>2. c # Ctx(t)
    BY <2>1 DEF SessionLock
  <2> QED
    BY <1>1, <2>1, <2>2 DEF Stays
<1>4. CASE Finish(t)
  <2>1. /\ dl' = [dl EXCEPT ![Ctx(t)].valid = FALSE, ![Ctx(t)].lock = FALSE]
        /\ Inside(t) /\ call[t].op = "finish"
    BY <1>4 DEF Finish, Inside
  <2>2. c # Ctx(t) => dl'[c] = dl[c]
    BY <1>1, <2>1
  <2>3. c = Ctx(t) => dl'[c] = [dl[c] EXCEPT !.valid = FALSE, !.lock = FALSE]
    BY <1>1, <2>1
  <2> QED
    BY <2>1, <2>2, <2>3 DEF Stays, Ends
<1>5. CASE CommitChunk(t)
  <2>1. /\ dl' = [dl EXCEPT ![Ctx(t)].offset = (@ + out[t].size) % UINT32]
        /\ out' = [out EXCEPT ![t].complete = IsComplete(out[t].size, dl[Ctx(t)].chunk_size),
                              ![t].output = TRUE]
        /\ pc[t] = "commit" /\ IsChunk(t)
    BY <1>5 DEF CommitChunk, Proceeds
  <2>2. c # Ctx(t) => dl'[c] = dl[c]
    BY <1>1, <2>1
  <2>3. c = Ctx(t) => dl'[c] = [dl[c] EXCEPT !.offset = (@ + out[t].size) % UINT32]
    BY <1>1, <2>1
  <2>4. out'[t].output /\ out'[t].size = out[t].size
    BY <1>1, <2>1 DEF Outcome
  <2>5. ~out[t].output
    BY <2>1 DEF ResultsInv, ReplyInv, CodeInvariant, HandedOut, Finishing
  <2>6. out[t].size <= dl[Ctx(t)].buffer1_size
    BY <1>5, CommittedFits
  <2> QED
    BY <2>1, <2>2, <2>3, <2>4, <2>5, <2>6 DEF Stays, Advances, Inside
<1> QED
  BY <1>2, <1>3, <1>4, <1>5 DEF SessionStep

LEMMA SessionStays ==
  ASSUME ResultsInv, SessionLock, [Next]_vars, NEW c \in Contexts, dl[c].valid
  PROVE  Stays(c)
<1>1. dl \in [Contexts -> Session]
  BY DEF ResultsInv, LockInv, DataTypes, MemTypes
<1>2. ASSUME NEW t \in Threads, Begin(t) \/ Unlock(t) \/ Consume(t) PROVE Stays(c)
  BY <1>2 DEF Begin, CallRejected, CallRefused, CallLocks, Refuse, Unlock, Consume, ctxVars, Stays
<1>3. ASSUME NEW d \in Contexts, NEW w \in WorkBuffers, SdkInitialize(d, w) PROVE Stays(c)
  <2>1. /\ dl' = [dl EXCEPT ![d].valid = FALSE, ![d].lock = FALSE]
        /\ \A t \in Threads : ~Uses(t, d)
    BY <1>3 DEF SdkInitialize
  <2>2. c # d => dl'[c] = dl[c]
    BY <1>1, <2>1
  <2>3. c = d => dl'[c] = [dl[c] EXCEPT !.valid = FALSE, !.lock = FALSE]
    BY <1>1, <2>1
  <2> QED
    BY <2>1, <2>2, <2>3 DEF Stays, Ends
<1>4. CASE ServeNew \/ ServeAgain \/ UNCHANGED vars
  BY <1>4 DEF ServeNew, ServeAgain, Serve, vars, ctxVars, Stays
<1> QED
  BY <1>2, <1>3, <1>4, OwnStepStays DEF Next, Step, InnerStep

(* firmups_sdk_firmware_download_initialize, get_chunk and finish: an open *)
(* session changes only by a get_chunk on its context that hands out a     *)
(* chunk, no longer than the buffer holds, and counts it, once; and it     *)
(* ends only when finish was called, or when no call was using the context *)
(* and its memory was initialised again.                                   *)
THEOREM SessionsAreStable ==
  ASSUME OneDownloadContext
  PROVE  Spec => SessionStable
<1>1. ResultsInv /\ SessionLock /\ [Next]_vars => [OpenSessionsStay]_dl
  BY SessionStays DEF Stays, OpenSessionsStay
<1> QED
  BY <1>1, ResultsCorrect, SessionLockExact, PTL DEF Spec, SessionStable

-----------------------------------------------------------------------------
(* The abstract session.                                                   *)

LEMMA ImageLength ==
  ASSUME NEW f \in Nat, NEW n \in Nat
  PROVE  /\ Len(BytesOf(Bytes(f, 0, n))) = n
         /\ BytesOf(Bytes(f, 0, n)) = Download!Prefix(f, n)
<1>1. Len(BytesOf(Bytes(f, 0, n))) = n
  BY BytesAre
<1>2. BytesOf(Bytes(f, 0, n)) = [i \in 1..n |-> <<f, 0 + i - 1>>]
  BY DEF BytesOf, Bytes
<1>3. \A i \in 1..n : <<f, 0 + i - 1>> = <<f, i - 1>>
  OBVIOUS
<1> QED
  BY <1>1, <1>2, <1>3 DEF Download!Prefix

LEMMA InitIsSessionInit == Init => Download!Init
<1> SUFFICES ASSUME Init PROVE Download!Init
  OBVIOUS
<1>1. \A c \in Contexts : dl[c] = NoSession /\ flash[c] = <<>>
  BY DEF Init
<1>2. \A c \in Contexts : ImageOf(c) = <<>>
  BY <1>1, InitTypes, NothingHeld DEF Init, Holds, NoOut
<1>3. \A c \in Contexts : dl[c].valid = FALSE /\ dl[c].firmware_id = 0
  BY <1>1 DEF NoSession
<1> QED
  BY <1>2, <1>3 DEF Download!Init

(* A step of the SDK is a step of the session of the one context that      *)
(* moves, or leaves it as it is.                                           *)
LEMMA StepIsSessionStep ==
  ASSUME OneDownloader, ImagesFit, ResultsInv, DownloadInv, ResultsInv', [Next]_vars
  PROVE  [Download!Next]_(Download!sessionVars)
<1> DEFINE active == [c \in Contexts |-> dl[c].valid]
           firmware == [c \in Contexts |-> dl[c].firmware_id]
           image == [c \in Contexts |-> ImageOf(c)]
<1>1. PICK d \in Contexts : Moves(d) /\ \A c \in Contexts : c # d => Still(c)
  BY DownloadSteps DEF OneMoves, ResultsInv
<1>2. dl[d] \in Session /\ dl'[d] \in Session
  BY DEF ResultsInv, DataTypes, MemTypes
<1>3. /\ active' = [active EXCEPT ![d] = dl'[d].valid]
      /\ firmware' = [firmware EXCEPT ![d] = dl'[d].firmware_id]
      /\ image' = [image EXCEPT ![d] = ImageOf(d)']
  BY <1>1 DEF Still
<1>4. CASE Quiet(d)
  <2>1. /\ image' = image /\ firmware' = firmware
    BY <1>2, <1>3, <1>4 DEF Quiet, Session
  <2>2. CASE dl'[d].valid = dl[d].valid
    <3>1. active' = active
      BY <1>3, <2>2
    <3> QED
      BY <2>1, <3>1 DEF Download!sessionVars
  <2>3. CASE dl'[d].valid # dl[d].valid
    <3>1. active[d] /\ dl'[d].valid = FALSE
      BY <1>2, <1>4, <2>3 DEF Quiet, Session
    <3>2. Download!Finish(d)
      BY <1>3, <2>1, <3>1 DEF Download!Finish
    <3> QED
      BY <3>2 DEF Download!Next
  <2> QED
    BY <2>2, <2>3
<1>5. CASE Opens(d)
  <2>1. PICK t \in Threads : /\ InitializeStarts(t)
                             /\ dl'[d] = NewSession(call[t]) /\ ImageOf(d)' = <<>>
    BY <1>5 DEF Opens
  <2>2. call[t].id \in FirmwareIds
    <3>1. call[t] \in CallsOf[t]
      BY <2>1 DEF InitializeStarts, InitializeCall, ResultsInv, ExchangeInv, CallsChosen
    <3> QED
      BY <3>1 DEF FirmwareIds
  <2>3. dl'[d].valid = TRUE /\ dl'[d].firmware_id = call[t].id
    BY <2>1 DEF NewSession
  <2>4. PICK f \in FirmwareIds : f = call[t].id
    BY <2>2
  <2>5. Download!Start(d, f)
    BY <1>3, <1>5, <2>1, <2>3, <2>4, OpensClosed DEF Download!Start
  <2> QED
    BY <2>5 DEF Download!Next
<1>6. CASE Commits(d)
  <2>1. PICK n \in Nat :
          /\ dl[d].valid /\ dl[d].firmware_id \in DOMAIN Images
          /\ dl'[d] = [dl[d] EXCEPT !.offset = dl[d].offset + n]
          /\ n > 0 => dl[d].offset + n <= Images[dl[d].firmware_id]
    BY <1>6, CommitAdvances
  <2>2. PICK fw, offset : fw = dl[d].firmware_id /\ offset = dl[d].offset
    OBVIOUS
  <2>3. fw \in Nat /\ offset \in Nat
    BY <1>2, <2>2 DEF Session
  <2>4. dl'[d].valid = dl[d].valid /\ dl'[d].firmware_id = fw /\ dl'[d].offset = offset + n
    BY <1>2, <2>1, <2>2 DEF Session
  <2>5. active' = active /\ firmware' = firmware
    BY <1>3, <2>2, <2>4
  <2>6. /\ ImageOf(d) = BytesOf(Bytes(fw, 0, offset))
        /\ ImageOf(d)' = BytesOf(Bytes(fw, 0, offset + n))
    <3>1. ImageOf(d) = BytesOf(Bytes(fw, 0, offset))
      BY <2>1, <2>2 DEF DownloadInv, ImageIntact
    <3>2. ContextInv(d)'
      BY ContextInvStep DEF ResultsInv
    <3> QED
      BY <2>1, <2>4, <3>1, <3>2 DEF ContextInv
  <2>7. CASE n = 0
    <3>1. ImageOf(d)' = ImageOf(d)
      BY <2>3, <2>6, <2>7
    <3>2. image' = image
      BY <1>3, <3>1
    <3> QED
      BY <2>5, <3>2 DEF Download!sessionVars
  <2>8. CASE n > 0
    <3>1. offset + n \in 1..Images[fw] /\ offset + n > offset
      <4>1. Images[fw] \in Nat /\ offset + n <= Images[fw]
        BY <2>1, <2>2, <2>8, SdkAssumption
      <4> QED
        BY <2>3, <2>8, <4>1
    <3>2. Len(ImageOf(d)) = offset /\ ImageOf(d)' = Download!Prefix(fw, offset + n)
      BY <2>3, <2>6, ImageLength
    <3>3. Download!Deliver(d, offset + n)
      BY <1>3, <2>1, <2>2, <2>5, <3>1, <3>2 DEF Download!Deliver
    <3> QED
      BY <2>1, <2>2, <3>1, <3>3 DEF Download!Next
  <2> QED
    BY <2>7, <2>8
<1> QED
  BY <1>1, <1>4, <1>5, <1>6 DEF Moves

(* The three download functions implement the session the application is   *)
(* promised: opened for one firmware, then prefix after longer prefix of   *)
(* that firmware's image, until it is closed; errors, retries, replies to  *)
(* other requests and the work of other threads show nothing.              *)
THEOREM DownloadRefinesSession ==
  ASSUME OneDownloadContext, OneDownloader, ImagesFit
  PROVE  Spec => DownloadImplementsSession
<1>1. /\ ResultsInv /\ DownloadInv /\ ResultsInv' /\ [Next]_vars
      => [Download!Next]_(Download!sessionVars)
  BY StepIsSessionStep
<1> QED
  BY <1>1, InitIsSessionInit, DownloadCorrect, PTL
     DEF Spec, DownloadImplementsSession, Download!Spec

-----------------------------------------------------------------------------
(* The last chunk: over a transport that matches replies with requests, or *)
(* for an application that always asks for as much.                        *)

LEMMA AskingKept ==
  ASSUME NetGrows, NEW t \in Threads, AskingInv(t), AskedInv(t),
         pc'[t] = pc[t], call'[t] = call[t], ret'[t] = ret[t], loc'[t] = loc[t],
         pc[t] \in Fetching => mem'[Ctx(t)] = mem[Ctx(t)] /\ dl'[Ctx(t)] = dl[Ctx(t)]
  PROVE  AskingInv(t)'
<1>1. pc[t] \in Handling \cup {"wait"} => reqs'[loc[t].tok] = reqs[loc[t].tok]
  BY DEF AskedInv, Asked, NetGrows
<1>2. /\ IsChunk(t)' = IsChunk(t)
      /\ pc[t] \in Fetching => ChunkRequest(t)' = ChunkRequest(t)
  BY DEF IsChunk, Ctx, ChunkRequest, operation_create_get_firmware_request
<1> QED
  BY <1>1, <1>2 DEF AskingInv, Ctx, Fetching, Handling

LEMMA NothingAsked ==
  ASSUME NEW t \in Threads, pc'[t] \notin Fetching \/ ~IsChunk(t)'
  PROVE  AskingInv(t)'
  BY DEF AskingInv, Fetching, Handling

LEMMA OwnStepAsks ==
  ASSUME ResultsInv, NetGrows, NEW t \in Threads, InnerStep(t), AskingInv(t)
  PROVE  AskingInv(t)'
<1>0. LockTypes /\ DataTypes /\ OwnCode(t) /\ AskedInv(t)
  BY DEF ResultsInv, LockInv, ReplyInv, CodeInvariant, Following
<1>1. /\ Ctx(t) \in Contexts /\ pc \in [Threads -> ControlPoint]
      /\ ret \in [Threads -> ReturnValue] /\ loc \in [Threads -> [opcode : Nat, tok : Nat]]
      /\ mem \in [Contexts -> [Buffer -> Frame]]
  BY <1>0, OwnState
<1>2. UNCHANGED call /\ Ctx(t)' = Ctx(t) /\ IsChunk(t)' = IsChunk(t)
  BY InnerStepMoves, CallKept
<1>3. CASE ~IsChunk(t) \/ pc'[t] \notin Fetching
  BY <1>2, <1>3, NothingAsked
<1>4. CASE IsChunk(t) /\ pc'[t] \in Fetching
  <2>1. UNCHANGED dl /\ ~SessionStep(t)
    BY <1>0, <1>4, FetchingStarts, PlainStepTouches
  <2>2. ChunkRequest(t)' = ChunkRequest(t)
    BY <1>2, <2>1 DEF ChunkRequest, operation_create_get_firmware_request
  <2> USE DEF Goto, SetRet, callVars, ctxVars
  <2>3. CASE CreateRequest(t)
    <3>1. /\ pc'[t] = "header"
          /\ \E fits \in BOOLEAN :
               /\ ret'[t] = IF fits THEN "NONE" ELSE "OPERATION_ENCODING"
               /\ mem'[Ctx(t)]["buffer1"] =
                    IF fits THEN Plain(RequestPayload(call[t], DeviceId[Ctx(t)], dl[Ctx(t)]))
                    ELSE Garbage
      BY <1>1, <1>4, <2>3 DEF CreateRequest, Write, OuterBuffer, Buffer
    <3>2. RequestPayload(call[t], DeviceId[Ctx(t)], dl[Ctx(t)]) = ChunkRequest(t)
      BY <1>4 DEF RequestPayload, ChunkRequest, IsChunk
    <3>3. ret'[t] = "NONE" => mem'[Ctx(t)]["buffer1"].body = ChunkRequest(t)
      BY <3>1, <3>2 DEF Plain
    <3> QED
      BY <1>2, <2>2, <3>1, <3>3 DEF AskingInv, Handling
  <2>4. CASE DrawNonce(t)
    <3>1. pc[t] = "header" /\ ret[t] = "NONE" /\ pc'[t] = "seal" /\ UNCHANGED mem
      BY <1>0, <1>1, <2>4, OwnCodeRead DEF DrawNonce, Proceeds, Working
    <3> QED
      BY <1>2, <1>4, <2>2, <3>1 DEF AskingInv, Handling
  <2>5. CASE RandomFails(t)
    <3>1. pc'[t] = "send" /\ ret'[t] # "NONE"
      BY <1>1, <2>5 DEF RandomFails
    <3> QED
      BY <3>1 DEF AskingInv, Handling
  <2>6. CASE Seal(t)
    <3>1. /\ pc[t] = "seal" /\ pc'[t] = "send"
          /\ ret'[t] = IF Sealable(t) THEN "NONE" ELSE "BUFFER_TOO_SMALL"
      BY <1>1, <2>6 DEF Seal
    <3>2. ASSUME ret'[t] = "NONE"
          PROVE  mem'[Ctx(t)]["buffer2"].body = mem[Ctx(t)]["buffer1"].body
      <4>1. Sealable(t)
        BY <3>1, <3>2
      <4>2. PICK key : Write(Ctx(t), "buffer2",
                             Cose(cry[Ctx(t)], key, mem[Ctx(t)]["buffer1"].body))
        BY <1>4, <2>6, <4>1 DEF Seal, OuterBuffer, InnerBuffer
      <4> QED
        BY <1>1, <4>2 DEF Write, Buffer, Cose
    <3> QED
      BY <1>2, <1>4, <2>2, <3>1, <3>2 DEF AskingInv, Handling
  <2>7. CASE Send(t)
    <3>1. /\ pc[t] = "send" /\ ret[t] = "NONE" /\ pc'[t] = "wait"
          /\ Posted(t, mem[Ctx(t)]["buffer2"]) /\ loc'[t].tok = Len(reqs) + 1
      BY <1>0, <1>1, <1>4, <2>7, OwnCodeRead
         DEF Send, Proceeds, Posted, Working, InnerBuffer
    <3>2. reqs'[loc'[t].tok].msg = mem[Ctx(t)]["buffer2"]
      <4>1. PICK m : m = mem[Ctx(t)]["buffer2"]
        OBVIOUS
      <4>2. Posted(t, m)
        BY <3>1, <4>1
      <4>3. NetTypes
        BY <1>0 DEF DataTypes
      <4>4. reqs'[Len(reqs) + 1] = [ctx |-> Ctx(t), call |-> call[t], msg |-> m]
        BY <4>2, <4>3, PostedGrows
      <4>5. reqs'[Len(reqs) + 1].msg = m
        BY <4>4
      <4> QED
        BY <3>1, <4>1, <4>5
    <3> QED
      BY <1>2, <1>4, <2>2, <3>1, <3>2 DEF AskingInv
  <2>8. CASE \/ Deliver(t) \/ SendFails(t) \/ OpenHeader(t) \/ NotAMessage(t) \/ Open(t)
             \/ ParseError(t) \/ ParseSimple(t) \/ ParseChunk(t)
    <3>1. /\ pc[t] \in Handling \cup {"wait"} /\ pc'[t] \in Handling \cup {"leave"}
          /\ loc'[t].tok = loc[t].tok
      <4>1. CASE Deliver(t) \/ SendFails(t)
        BY <1>1, <4>1 DEF Deliver, SendFails, AfterSend, Handling
      <4>2. CASE OpenHeader(t) \/ NotAMessage(t) \/ Open(t)
        BY <1>1, <4>2 DEF OpenHeader, NotAMessage, Open, Proceeds, Handling
      <4>3. CASE ParseError(t) \/ ParseSimple(t) \/ ParseChunk(t)
        BY <1>1, <4>3 DEF ParseError, ParseSimple, ParseChunk, Proceeds, Handling
      <4> QED
        BY <2>8, <4>1, <4>2, <4>3
    <3>2. reqs'[loc[t].tok] = reqs[loc[t].tok]
      BY <1>0, <3>1 DEF AskedInv, Asked, NetGrows
    <3> QED
      BY <1>2, <1>4, <2>2, <3>1, <3>2 DEF AskingInv, Handling
  <2>9. CASE \/ RejectArguments(t) \/ RejectNoSession(t) \/ InitializeTooSmall(t)
             \/ InitializeBusy(t) \/ Bail(t) \/ Leave(t) \/ CommitMismatch(t) \/ CommitSimple(t)
    BY <1>1, <1>4, <2>9
       DEF RejectArguments, RejectNoSession, InitializeTooSmall, InitializeBusy, Bail, Leave,
           CommitMismatch, CommitSimple, Return, Fetching, Handling
  <2>10. ~Forward(t)
    BY <1>4 DEF Forward, IsChunk
  <2> QED
    BY <2>1, <2>3, <2>4, <2>5, <2>6, <2>7, <2>8, <2>9, <2>10 DEF InnerStep, SessionStep
<1> QED
  BY <1>3, <1>4

LEMMA AskingStep ==
  ASSUME ResultsInv, NetGrows, [Next]_vars, NEW u \in Threads, AskingInv(u)
  PROVE  AskingInv(u)'
<1>1. /\ LockTypes /\ DataTypes /\ MutualExclusion /\ AskedInv(u)
      /\ pc \in [Threads -> ControlPoint] /\ call \in [Threads -> CallRecord]
      /\ ret \in [Threads -> ReturnValue] /\ loc \in [Threads -> [opcode : Nat, tok : Nat]]
      /\ dl \in [Contexts -> Session]
  BY DEF ResultsInv, LockInv, LockTypes, DataTypes, MemTypes, RetTypes, LocTypes, ReplyInv,
         Following
<1>2. ASSUME NEW t \in Threads, InnerStep(t) PROVE AskingInv(u)'
  <2>1. CASE u = t
    BY <1>2, <2>1, OwnStepAsks
  <2>2. CASE u # t
    <3>1. Inside(t) /\ UNCHANGED call
      BY <1>2, InnerStepMoves
    <3>2. pc[u] \in Fetching => Ctx(u) # Ctx(t) /\ Ctx(u) \in Contexts
      BY <1>1, <2>2, <3>1, ContextOf DEF MutualExclusion, Inside, Fetching, Handling
    <3> QED
      BY <1>1, <1>2, <2>2, <3>1, <3>2, InnerStepIsLocal, InnerStepTouches, AskingKept
  <2> QED
    BY <2>1, <2>2
<1>3. ASSUME NEW t \in Threads, NEW l \in {"body", "returned", "idle"},
             pc' = [pc EXCEPT ![t] = l], UNCHANGED <<mem, dl>>,
             \A v \in Threads : v # t =>
               call'[v] = call[v] /\ ret'[v] = ret[v] /\ loc'[v] = loc[v]
      PROVE  AskingInv(u)'
  <2>1. CASE u = t
    BY <1>1, <1>3, <2>1, NothingAsked DEF Fetching, Handling
  <2>2. CASE u # t
    BY <1>1, <1>3, <2>2, AskingKept
  <2> QED
    BY <2>1, <2>2
<1>4. ASSUME NEW t \in Threads, Begin(t) PROVE AskingInv(u)'
  <2>1. PICK k \in CallsOf[t] : CallRejected(t, k) \/ CallRefused(t, k) \/ CallLocks(t, k)
    BY <1>4 DEF Begin
  <2>2. /\ UNCHANGED <<dl, mem, loc>> /\ call' = [call EXCEPT ![t] = k]
        /\ \/ pc' = [pc EXCEPT ![t] = "body"] /\ UNCHANGED ret
           \/ /\ pc' = [pc EXCEPT ![t] = "returned"]
              /\ \E code \in {"INVALID_ARGUMENT", "UNSUPPORTED_CONCURRENCY"} :
                   ret' = [ret EXCEPT ![t] = code]
    BY <2>1 DEF CallRejected, CallRefused, CallLocks, Calls, Refuse, ctxVars, Goto
  <2> QED
    BY <1>1, <1>3, <2>2
<1>5. ASSUME NEW t \in Threads, Unlock(t) \/ Consume(t) PROVE AskingInv(u)'
  BY <1>1, <1>3, <1>5 DEF Unlock, Consume, ctxVars, callVars, Goto
<1>6. ASSUME NEW c \in Contexts, NEW w \in WorkBuffers, SdkInitialize(c, w)
      PROVE  AskingInv(u)'
  <2>1. /\ UNCHANGED <<pc, call, ret, loc, mem>> /\ \A t \in Threads : pc[t] # "idle" => Ctx(t) # c
        /\ dl' = [dl EXCEPT ![c].valid = FALSE, ![c].lock = FALSE]
    BY <1>6 DEF SdkInitialize, Uses, callVars
  <2>2. pc[u] \in Fetching => dl'[Ctx(u)] = dl[Ctx(u)]
    BY <1>1, <2>1, ContextOf DEF Fetching, Handling
  <2> QED
    BY <1>1, <2>1, <2>2, AskingKept
<1>7. CASE ServeNew \/ ServeAgain \/ UNCHANGED vars
  BY <1>1, <1>7, AskingKept DEF ServeNew, ServeAgain, Serve, vars, ctxVars, callVars
<1> QED
  BY <1>2, <1>4, <1>5, <1>6, <1>7 DEF Next, Step, InnerStep

(* A chunk that is held was held before, or has just been committed.       *)
LEMMA HeldIsKept ==
  ASSUME ResultsInv, [Next]_vars, NEW u \in Threads, out'[u].output, ~CommitChunk(u)
  PROVE  out[u].output /\ out'[u] = out[u] /\ call'[u] = call[u]
<1>1. /\ LockTypes /\ DataTypes /\ CodeInvariant
      /\ pc \in [Threads -> ControlPoint] /\ call \in [Threads -> CallRecord]
      /\ out \in [Threads -> Outcome]
  BY DEF ResultsInv, LockInv, LockTypes, DataTypes, LocTypes, ReplyInv
<1>2. out[u].output => pc[u] \in Finishing
  BY <1>1 DEF CodeInvariant, HandedOut
<1>3. ASSUME NEW t \in Threads, InnerStep(t)
      PROVE  out[u].output /\ out'[u] = out[u] /\ call'[u] = call[u]
  <2>1. UNCHANGED call
    BY <1>3, InnerStepMoves
  <2>2. CASE u # t
    BY <1>1, <1>3, <2>1, <2>2, InnerStepTouches
  <2>3. CASE u = t /\ SessionStep(t)
    BY <2>1, <2>3 DEF SessionStep, InitializeStarts, Finish, callVars
  <2>4. CASE u = t /\ ~SessionStep(t)
    <3>1. out[u].output /\ pc[u] \in Finishing
      BY <1>1, <1>2, <1>3, <2>4, PlainStepTouches
    <3>2. Leave(t)
      BY <1>3, <2>4, <3>1
         DEF Finishing, InnerStep, SessionStep, RejectArguments, RejectNoSession,
             InitializeTooSmall, InitializeBusy, InitializeCall, CreateRequest, Forward, Bail,
             CheckPoint, DrawNonce, RandomFails, Seal, Send, Deliver, SendFails, OpenHeader,
             NotAMessage, Open, ParseError, ParseSimple, ParseChunk, CommitMismatch,
             CommitSimple, Proceeds
    <3> QED
      BY <2>1, <3>1, <3>2 DEF Leave, callVars
  <2> QED
    BY <2>2, <2>3, <2>4
<1>4. ASSUME NEW t \in Threads, Begin(t)
      PROVE  out[u].output /\ out'[u] = out[u] /\ call'[u] = call[u]
  <2>1. PICK k \in CallsOf[t] : CallRejected(t, k) \/ CallRefused(t, k) \/ CallLocks(t, k)
    BY <1>4 DEF Begin
  <2>2. pc[t] = "idle" /\ UNCHANGED out /\ call' = [call EXCEPT ![t] = k]
    BY <2>1 DEF CallRejected, CallRefused, CallLocks, Calls, Refuse
  <2> QED
    BY <1>1, <1>2, <2>2 DEF Finishing
<1>5. ASSUME NEW t \in Threads, Consume(t)
      PROVE  out[u].output /\ out'[u] = out[u] /\ call'[u] = call[u]
  BY <1>1, <1>5 DEF Consume, NoOut
<1>6. ASSUME UNCHANGED <<out, call>>
      PROVE  out[u].output /\ out'[u] = out[u] /\ call'[u] = call[u]
  BY <1>6
<1>7. ASSUME NEW t \in Threads, Unlock(t) PROVE UNCHANGED <<out, call>>
  BY <1>7 DEF Unlock, callVars
<1>8. ASSUME NEW c \in Contexts, NEW w \in WorkBuffers, SdkInitialize(c, w)
      PROVE  UNCHANGED <<out, call>>
  BY <1>8 DEF SdkInitialize, callVars
<1>9. CASE ServeNew \/ ServeAgain \/ UNCHANGED vars
  BY <1>6, <1>9 DEF ServeNew, ServeAgain, Serve, vars, callVars
<1> QED
  BY <1>3, <1>4, <1>5, <1>6, <1>7, <1>8, <1>9 DEF Next, Step, InnerStep

-----------------------------------------------------------------------------
(* How much is asked for.                                                  *)
(* The application opens its downloads with buffers of one size.           *)
AllCalls == UNION {CallsOf[t] : t \in Threads}
Opening == {k \in AllCalls : k.op = "download_initialize"}

OneBufferSize == \A k, l \in Opening : k.size = l.size

ChunkSizes == {NewSession(k).chunk_size : k \in Opening}

(* A session has the chunk size of a download_initialize, and a request    *)
(* for a chunk, which may outlive its session, that of some session; its   *)
(* offset is one that a session can have.                                  *)
ChunkAsked(m) ==
  m.hdr.opcode = OPERATION_ID_GET_FIRMWARE_REQUEST
    => m.body.items[2].val < UINT32 /\ m.body.items[3].val \in ChunkSizes

SessionSizes == \A c \in Contexts : dl[c].valid => dl[c].chunk_size \in ChunkSizes
RequestSizes == \A q \in 1..Len(reqs) : ChunkAsked(reqs[q].msg)

SizesInv == SessionSizes /\ RequestSizes

LEMMA SizesInvInit == Init => SizesInv
  BY DEF Init, SizesInv, SessionSizes, RequestSizes, NoSession

LEMMA SessionSizesStep ==
  ASSUME OneDownloader, ResultsInv, SessionSizes, DataTypes', [Next]_vars
  PROVE  SessionSizes'
<1> SUFFICES ASSUME NEW c \in Contexts, dl'[c].valid PROVE dl'[c].chunk_size \in ChunkSizes
  BY DEF SessionSizes
<1>1. dl[c] \in Session
  BY DEF ResultsInv, DataTypes, MemTypes
<1>2. CASE Quiet(c) \/ Commits(c)
  <2>1. dl'[c].valid = dl[c].valid /\ dl'[c].chunk_size = dl[c].chunk_size
    <3>1. CASE Quiet(c)
      BY <1>1, <3>1 DEF Quiet, Session
    <3>2. CASE Commits(c)
      <4>1. PICK n : dl'[c] = [dl[c] EXCEPT !.offset = n]
        BY <3>2 DEF Commits
      <4> QED
        BY <1>1, <4>1 DEF Session
    <3> QED
      BY <1>2, <3>1, <3>2
  <2> QED
    BY <2>1 DEF SessionSizes
<1>3. CASE Opens(c)
  <2>1. PICK t \in Threads : InitializeStarts(t) /\ dl'[c] = NewSession(call[t])
    BY <1>3 DEF Opens
  <2>2. call[t] \in CallsOf[t] /\ call[t].op = "download_initialize"
    BY <2>1 DEF InitializeStarts, InitializeCall, ResultsInv, ExchangeInv, CallsChosen
  <2>3. call[t] \in Opening
    BY <2>2 DEF Opening, AllCalls
  <2> QED
    BY <2>1, <2>3 DEF ChunkSizes
<1> QED
  BY <1>2, <1>3, EveryContextMoves DEF Moves

(* What a call posts.                                                      *)
LEMMA PostedAsks ==
  ASSUME ResultsInv, DownloadInv, SessionSizes,
         NEW t \in Threads, AskingInv(t), NEW m,
         (Send(t) /\ m = mem[Ctx(t)][InnerBuffer(t)])
           \/ (Forward(t) /\ m = ForeignMessage(call[t].id)),
         m.hdr.opcode = OPERATION_ID_GET_FIRMWARE_REQUEST
  PROVE  m.body.items[2].val < UINT32 /\ m.body.items[3].val \in ChunkSizes
<1> DEFINE s == dl[Ctx(t)]
<1>1. ~Forward(t) \/ m # ForeignMessage(call[t].id)
  BY DEF ForeignMessage, Cose, OPERATION_ID_GET_DEVICE_INFO_REQUEST,
         OPERATION_ID_GET_FIRMWARE_REQUEST
<1>2. Send(t) /\ m = mem[Ctx(t)][InnerBuffer(t)]
  BY <1>1
<1>3. /\ Drawn(t) /\ Sending(t) /\ LockTypes /\ DataTypes
      /\ DrawnInv(t) /\ SendInv(t)
  BY <1>2, SendSendsPrepared DEF ResultsInv, LockInv, ExchangeInv, Prepared
<1>4. m.hdr.opcode = RequestOpcode(call[t].op) /\ call[t].op \in MessageOps
  BY <1>2, <1>3 DEF DrawnInv, SendInv
<1>5. IsChunk(t)
  BY <1>4 DEF IsChunk, MessageOps, RequestOpcode, OPERATION_ID_GET_PARAMETER_REQUEST,
              OPERATION_ID_GET_DEVICE_INFO_REQUEST, OPERATION_ID_SET_DEVICE_INFO_REQUEST,
              OPERATION_ID_GET_FIRMWARE_REQUEST
<1>6. m.body = ChunkRequest(t)
  BY <1>2, <1>3, <1>5 DEF AskingInv, Sending, InnerBuffer
<1>7. m.body.items[2].val = s.offset /\ m.body.items[3].val = s.chunk_size
  <2>1. m.body.items = <<Uint(s.firmware_id), Uint(s.offset), Uint(s.chunk_size)>>
    BY <1>6 DEF ChunkRequest, operation_create_get_firmware_request, Array
  <2> QED
    BY <2>1 DEF Uint
<1>8. Ctx(t) \in Contexts /\ s.valid
  BY <1>3, <1>5, OwnState DEF Sending, DownloadInv, OpenWhileFetching, Fetching
<1> QED
  BY <1>7, <1>8 DEF DownloadInv, OffsetsFit, OffsetFits, SessionSizes

LEMMA RequestSizesStep ==
  ASSUME ResultsInv, DownloadInv, WholeInv, SizesInv, NetGrows, [Next]_vars
  PROVE  RequestSizes'
<1>1. /\ LockInv /\ LockTypes /\ DataTypes /\ NetTypes /\ ExchangeInv /\ Len(reqs) \in Nat
      /\ SessionSizes /\ RequestSizes
  BY DEF ResultsInv, LockInv, DataTypes, NetTypes, SizesInv
<1>2. CASE UNCHANGED reqs
  BY <1>1, <1>2 DEF RequestSizes
<1>3. ASSUME NEW t \in Threads, PostingStep(t) PROVE RequestSizes'
  <2>1. PICK m : /\ Posted(t, m)
                 /\ \/ Send(t) /\ m = mem[Ctx(t)][InnerBuffer(t)]
                    \/ Forward(t) /\ m = ForeignMessage(call[t].id)
    BY <1>3 DEF PostingStep, Send, Forward
  <2>2. /\ Len(reqs') = Len(reqs) + 1
        /\ reqs'[Len(reqs) + 1] = [ctx |-> Ctx(t), call |-> call[t], msg |-> m]
    BY <1>1, <2>1, PostedGrows
  <2>3. ChunkAsked(m)
    BY <1>1, <2>1, PostedAsks DEF ChunkAsked, WholeInv
  <2>4. ASSUME NEW q \in 1..Len(reqs') PROVE ChunkAsked(reqs'[q].msg)
    <3>1. CASE q \in 1..Len(reqs)
      BY <1>1, <3>1 DEF NetGrows, RequestSizes
    <3>2. CASE q = Len(reqs) + 1
      BY <2>2, <2>3, <3>2
    <3> QED
      BY <1>1, <2>2, <3>1, <3>2
  <2> QED
    BY <2>4 DEF RequestSizes, ChunkAsked, ChunkSizes, Opening, AllCalls
<1> QED
  BY <1>1, <1>2, <1>3, OnlyPostingAsks

(* If a chunk is shorter than what was asked for, the image ends with it.  *)
LEMMA ShortChunkIsLast ==
  ASSUME Matching = TRUE \/ OneBufferSize, ImagesFit, ResultsInv, DownloadInv, SizesInv,
         NEW t \in Threads, AskingInv(t), CommitChunk(t), out[t].size < dl[Ctx(t)].chunk_size
  PROVE  LET s == dl[Ctx(t)]
         IN  s.firmware_id \in DOMAIN Images /\ s.offset + out[t].size = Images[s.firmware_id]
<1> DEFINE s == dl[Ctx(t)]
<1>1. PICK r \in reps, at \in Nat, len \in Nat :
        LET d == Slice(s.firmware_id, at, len)
        IN  /\ MayReach(t, r)
            /\ reqs[r.tok].msg.hdr.opcode = OPERATION_ID_GET_FIRMWARE_REQUEST
            /\ reqs[r.tok].msg.body.items[2].val = at
            /\ reqs[r.tok].msg.body.items[3].val = len
            /\ s.firmware_id \in DOMAIN Images
            /\ at % UINT32 = s.offset
            /\ out[t].size = d.len
  BY CommittedAnswer
<1>2. PICK fw, offset, n, d :
        /\ fw = s.firmware_id /\ offset = s.offset /\ n = out[t].size
        /\ d = Slice(fw, at, len)
  OBVIOUS
<1>3. pc[t] = "commit" /\ IsChunk(t)
  BY DEF CommitChunk, Proceeds
<1>4. at = offset /\ len = s.chunk_size
  <2>1. CASE Matching = TRUE
    <3>1. reqs[loc[t].tok].msg.body = ChunkRequest(t)
      BY <1>3 DEF AskingInv, Handling
    <3>2. reqs[r.tok].msg.body.items =
            <<Uint(s.firmware_id), Uint(s.offset), Uint(s.chunk_size)>>
      BY <1>1, <2>1, <3>1 DEF MayReach, ChunkRequest, operation_create_get_firmware_request, Array
    <3> QED
      BY <1>1, <1>2, <3>2 DEF Uint
  <2>2. CASE OneBufferSize
    <3>1. r.tok \in 1..Len(reqs)
      BY <1>1 DEF ResultsInv, ReplyInv, RepliesAnswer, DataTypes, NetTypes
    <3>2. at < UINT32 /\ len \in ChunkSizes
      BY <1>1, <3>1 DEF SizesInv, RequestSizes, ChunkAsked
    <3>3. at = offset
      BY <1>1, <1>2, <3>2, UINT32Assumption
    <3>4. s.chunk_size \in ChunkSizes
      BY <1>3, OwnState
         DEF ResultsInv, LockInv, DownloadInv, OpenWhileFetching, Fetching, Handling, SizesInv,
             SessionSizes
    <3>5. \A k, l \in Opening : NewSession(k).chunk_size = NewSession(l).chunk_size
      BY <2>2 DEF OneBufferSize, NewSession
    <3>6. len = s.chunk_size
      BY <3>2, <3>4, <3>5 DEF ChunkSizes
    <3> QED
      BY <3>3, <3>6
  <2> QED
    BY <2>1, <2>2
<1>5. /\ n \in Nat /\ n = d.len
      /\ n > 0 => offset + n <= Images[fw]
      /\ n < len => offset + n >= Images[fw]
  BY <1>1, <1>2, <1>4, SliceIs
<1>6. offset \in Nat /\ offset <= Images[fw] /\ Images[fw] \in Nat
  <2>1. Ctx(t) \in Contexts /\ s \in Session
    BY OwnState DEF ResultsInv, LockInv
  <2>2. s.valid
    BY <1>3 DEF DownloadInv, OpenWhileFetching, Fetching, Handling
  <2>3. Images[fw] \in Nat
    BY <1>1, <1>2, SdkAssumption
  <2> QED
    BY <1>1, <1>2, <2>1, <2>2, <2>3 DEF DownloadInv, OffsetsFit, OffsetFits, Session
<1> QED
  BY <1>1, <1>2, <1>4, <1>5, <1>6

LEMMA LastStep ==
  ASSUME Matching = TRUE \/ OneBufferSize, OneDownloader, ImagesFit,
         ResultsInv, DownloadInv, SizesInv, DataTypes', [Next]_vars,
         NEW u \in Threads, AskingInv(u), LastInv(u)
  PROVE  LastInv(u)'
<1>1. /\ LockTypes /\ DataTypes /\ CodeInvariant /\ Ctx(u) \in Contexts
      /\ out \in [Threads -> Outcome] /\ dl \in [Contexts -> Session]
  BY ContextOf DEF ResultsInv, LockInv, DataTypes, MemTypes, LocTypes, ReplyInv
<1> SUFFICES ASSUME IsChunk(u)', out'[u].output, out'[u].complete, dl'[Ctx(u)'].valid
             PROVE  /\ dl'[Ctx(u)'].firmware_id \in DOMAIN Images
                    /\ dl'[Ctx(u)'].offset = Images[dl'[Ctx(u)'].firmware_id]
  BY DEF LastInv
<1>2. CASE CommitChunk(u)
  <2>1. /\ Ctx(u)' = Ctx(u)
        /\ dl'[Ctx(u)] = [dl[Ctx(u)] EXCEPT !.offset = (@ + out[u].size) % UINT32]
        /\ out'[u].complete = (out[u].size < dl[Ctx(u)].chunk_size)
    BY <1>1, <1>2 DEF CommitChunk, Ctx, Outcome, IsComplete
  <2>2. dl[Ctx(u)] \in Session
    BY <1>1
  <2>3. /\ dl'[Ctx(u)].firmware_id = dl[Ctx(u)].firmware_id
        /\ dl'[Ctx(u)].offset = (dl[Ctx(u)].offset + out[u].size) % UINT32
    BY <2>1, <2>2 DEF Session
  <2>4. (dl[Ctx(u)].offset + out[u].size) % UINT32 = dl[Ctx(u)].offset + out[u].size
    BY <1>2, CommittedChunk DEF DownloadInv
  <2>5. /\ dl[Ctx(u)].firmware_id \in DOMAIN Images
        /\ dl[Ctx(u)].offset + out[u].size = Images[dl[Ctx(u)].firmware_id]
    BY <1>2, <2>1, ShortChunkIsLast
  <2> QED
    BY <2>1, <2>3, <2>4, <2>5
<1>3. CASE ~CommitChunk(u)
  <2>1. out[u].output /\ out'[u] = out[u] /\ call'[u] = call[u]
    BY <1>3, HeldIsKept
  <2>2. PICK c \in Contexts : c = Ctx(u) /\ c = Ctx(u)' /\ Holds(u, c)
    BY <1>1, <2>1 DEF Holds, IsChunk, Ctx
  <2>3. pc[u] \in Finishing
    BY <1>1, <2>1 DEF CodeInvariant, HandedOut
  <2>4. ~Opens(c) /\ ~Commits(c)
    <3>1. ASSUME NEW t \in Threads, Ctx(t) = c, InitializeStarts(t) \/ CommitChunk(t)
          PROVE  FALSE
      <4>1. /\ pc[t] \in {"body", "commit"}
            /\ call[t].op \in DownloadOps
        BY <3>1 DEF InitializeStarts, InitializeCall, CommitChunk, Proceeds, IsChunk, DownloadOps
      <4>2. u = t
        BY <2>2, <3>1, <4>1, OneHolder
      <4> QED
        BY <2>3, <4>1, <4>2 DEF Finishing
    <3> QED
      BY <3>1 DEF Opens, Commits
  <2>5. Quiet(c)
    BY <2>4, EveryContextMoves DEF Moves
  <2>6. /\ dl[c].valid /\ dl'[c].firmware_id = dl[c].firmware_id
        /\ dl'[c].offset = dl[c].offset
    <3>1. dl[c] \in Session /\ dl'[c].valid
      BY <1>1, <2>2
    <3> QED
      BY <2>5, <3>1 DEF Quiet, Session
  <2> QED
    BY <2>1, <2>2, <2>6 DEF LastInv, Holds
<1> QED
  BY <1>2, <1>3

(* The invariant of the download as a whole.                               *)
ImagesInv == DownloadInv /\ WholeInv /\ SizesInv

LEMMA ImagesInvInit == Init => ImagesInv
<1>1. Init => WholeInv
  BY DEF Init, WholeInv, AskingInv, LastInv, Handling, NoOut
<1> QED
  BY <1>1, DownloadInvInit, SizesInvInit DEF ImagesInv

LEMMA ImagesInvStep ==
  ASSUME Matching = TRUE \/ OneBufferSize, OneDownloader, ImagesFit,
         ResultsInv, ResultsInv', NetGrows, ImagesInv, [Next]_vars
  PROVE  ImagesInv'
<1>1. DownloadInv /\ WholeInv /\ SizesInv /\ SessionSizes /\ DataTypes'
  BY DEF ImagesInv, SizesInv, ResultsInv
<1>2. DownloadInv'
  BY <1>1, DownloadInvStep
<1>3. \A t \in Threads : AskingInv(t)' /\ LastInv(t)'
  BY <1>1, AskingStep, LastStep DEF WholeInv
<1>4. SessionSizes' /\ RequestSizes'
  BY <1>1, SessionSizesStep, RequestSizesStep
<1> QED
  BY <1>2, <1>3, <1>4 DEF ImagesInv, WholeInv, SizesInv

LEMMA ImagesInvMeans ==
  ASSUME ResultsInv, ImagesInv
  PROVE  CompleteMeansWhole
<1> SUFFICES ASSUME NEW t \in Threads,
                    Succeeded(t, "get_chunk"), out[t].complete, dl[Ctx(t)].valid
             PROVE  Len(ImageOf(Ctx(t))) = Images[dl[Ctx(t)].firmware_id]
  BY DEF CompleteMeansWhole
<1>1. PICK c \in Contexts : c = Ctx(t)
  BY ContextOf DEF ResultsInv, LockInv
<1>2. IsChunk(t) /\ out[t].output
  BY DEF Succeeded, Returned, IsChunk, ResultsInv, ReplyInv, CodeInvariant, HandedOut, Finishing
<1>3. dl[c].offset = Images[dl[c].firmware_id]
  BY <1>1, <1>2 DEF ImagesInv, WholeInv, LastInv
<1>4. PICK fw, offset : fw = dl[c].firmware_id /\ offset = dl[c].offset
  OBVIOUS
<1>5. fw \in Nat /\ offset \in Nat
  BY <1>4 DEF ResultsInv, DataTypes, MemTypes, Session
<1>6. ImageOf(c) = BytesOf(Bytes(fw, 0, offset))
  BY <1>1, <1>4 DEF ImagesInv, DownloadInv, ImageIntact
<1> QED
  BY <1>1, <1>3, <1>4, <1>5, <1>6, ImageLength

(* is_complete: a chunk announced as the last one makes the image whole,   *)
(* if send_data returns only the reply to its own request, or if the       *)
(* application opens all its downloads with buffers of one size: then a    *)
(* late answer that passes the comparison of firmware and offset is one to *)
(* the same question.                                                      *)
THEOREM CompleteImagesAreWhole ==
  ASSUME OneDownloadContext, OneDownloader, ImagesFit, Matching = TRUE \/ OneBufferSize
  PROVE  Spec => []CompleteMeansWhole
<1>1. ResultsInv /\ ImagesInv /\ [Next]_vars => (ResultsInv /\ ImagesInv)'
  BY ResultsInvStep, ImagesInvStep
<1>2. Init => ResultsInv /\ ImagesInv
  BY ResultsInvInit, ImagesInvInit
<1>3. ResultsInv /\ ImagesInv => CompleteMeansWhole
  BY ImagesInvMeans
<1> QED
  BY <1>1, <1>2, <1>3, PTL DEF Spec
=============================================================================
