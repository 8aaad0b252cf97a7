------------------------------ MODULE CoseCodec -----------------------------
(***************************************************************************)
(* src/codec: one cose_context, sealing operations and opening messages in *)
(* any order.  FirmupsSdk takes for granted that a message opens exactly   *)
(* when key and header are those it was sealed with; here that is what has *)
(* to be shown.  A sealed message carries the associated data and nonce    *)
(* the cipher was given, and the cipher opens only with the same ones.     *)
(*                                                                         *)
(* The context is reused: its aad_buffer keeps the bytes of the message    *)
(* before, of whichever length and direction.                              *)
(***************************************************************************)
EXTENDS CborSizes

CONSTANTS
  UINT32,           \* 2^32, or a smaller stand-in above every key and size
  Devices, Opcodes, \* what cose_encrypt_msg is called with
  OperationSizes,   \* sizes of the operations that are sealed
  BufferSizes,      \* sizes of the buffers of messages and operations
  Nonces,           \* names of what the random source produces
  ServerHeaders,    \* protected headers of the messages that arrive
  Exchanges,        \* pairs of headers: the second is found in place of the first
  Builds,           \* TRUE: a build with FIRMUPS_USE_CRYPTO_CALLBACKS
  Faults,           \* subset of {"random", "key", "encrypt"}
  MaxOperations     \* bound: messages sealed and opened, own ones coming back aside

UINT16 == 65536

ASSUME CodecAssumption ==
  /\ UINT32 \in Nat /\ UINT32 >= UINT16
  /\ Devices \subseteq 0..UINT32 - 1
  /\ Opcodes \subseteq 0..UINT16 - 1
  /\ OperationSizes \subseteq Nat
  /\ BufferSizes \subseteq Nat
  /\ Exchanges \subseteq ServerHeaders \X ServerHeaders
  /\ Builds \subseteq BOOLEAN
  /\ MaxOperations \in Nat

CRYPTO_NONCE_SIZE == 16
COSE_AAD_MAX_SIZE == COSE_PROTECTED_HEADER_MAX_SIZE + 13
AAD_PREFIX_SIZE == 10
PROTECTED_HEADER_BSTR_PREFIX_SIZE == 2
COSE_HEADER_MAP_SIZE == 5
ENCRYPTION_ALGO_ASCON_AEAD_128 == 35

(* enum cose_header_key *)
ALGO   == 1
CRIT   == 2
NONCE  == 5
DEVICE_ID == 8608
OPCODE == 8633

-----------------------------------------------------------------------------
(* Protected headers: a CBOR map, as the list of its entries.  A key that  *)
(* is not an unsigned integer is -1.                                       *)

Entry(k, type, val, len, list) ==
  [key |-> k, type |-> type, val |-> val, len |-> len, list |-> list]
UintEntry(k, n)     == Entry(k, "uint", n, 0, <<>>)
BytesEntry(k, v, n) == Entry(k, "bytes", v, n, <<>>)
ListEntry(k, list)  == Entry(k, "array", 0, 0, list)

Map(entries) == [map |-> TRUE, entries |-> entries]
NotAMap == [map |-> FALSE, entries |-> <<>>]

ListSize(list) == FoldSeq(LAMBDA n, s : s + UintSize(n), 1, list)

EntrySize(e) ==
  UintSize(e.key) +       \* -1 takes one byte as well
  CASE e.type = "uint"  -> UintSize(e.val)
    [] e.type = "bytes" -> BstrHeaderSize(e.len) + e.len
    [] e.type = "array" -> ListSize(e.list)
    [] OTHER            -> 1

HeaderSize(h) == FoldSeq(LAMBDA e, s : s + EntrySize(e), 1, h.entries)

EntryTypes == {"uint", "bytes", "array", "other"}

(* A header that arrives: sizes and unsigned integers are numbers.         *)
ASSUME ServerAssumption ==
  \A h \in ServerHeaders :
    /\ h \in [map : BOOLEAN,
              entries : Seq([key : Nat \cup {-1}, type : EntryTypes, val : Nat,
                             len : Nat, list : Seq(Nat \cup {-1})])]
    /\ HeaderSize(h) \in Nat

(* encode_protected_header *)
encode_protected_header(device, opcode, nonce) ==
  Map(<<UintEntry(ALGO, ENCRYPTION_ALGO_ASCON_AEAD_128),
        BytesEntry(NONCE, nonce, CRYPTO_NONCE_SIZE),
        ListEntry(CRIT, <<DEVICE_ID, OPCODE>>),
        UintEntry(DEVICE_ID, device),
        UintEntry(OPCODE, opcode)>>)

-----------------------------------------------------------------------------
(* Bytes: one of a given value, or the i-th of the encoding of a header.   *)

Byte(b) == [of |-> <<>>, val |-> b]
HeaderBytes(h) == [i \in 1..HeaderSize(h) |-> [of |-> <<h>>, val |-> i]]
AsBytes(s) == [i \in 1..Len(s) |-> Byte(s[i])]

(* Fault: the length of a two-byte string written in the one-byte form.    *)
write_bstr_header_truncated(len) ==
  IF len <= 255 THEN <<88, len>> ELSE <<88, len % 256>>

(* cbor_helper_write_bstr_header *)
cbor_helper_write_bstr_header(len) ==
  IF len <= 23 THEN <<64 + len>>
  ELSE IF len <= 255 THEN <<88, len>>
  ELSE IF len <= 65535 THEN <<89, (len \div 256) % 256, len % 256>>
  ELSE <<90, (len \div 16777216) % 256, (len \div 65536) % 256,
             (len \div 256) % 256, len % 256>>

(* Bytes written over a buffer from position at (0 is the first).          *)
Put(buffer, at, bytes) ==
  [i \in DOMAIN buffer |->
     IF i \in at + 1 .. at + Len(bytes) THEN bytes[i - at] ELSE buffer[i]]

(* create_aad_prefix, create_aad_suffix: the array of three and the text   *)
(* "Encrypt0"; the empty byte string.                                      *)
create_aad_prefix == AsBytes(<<131, 104, 69, 110, 99, 114, 121, 112, 116, 48>>)
create_aad_suffix == AsBytes(cbor_helper_write_bstr_header(0))

(* Sealing builds the associated data in place around the header, with two *)
(* bytes left for the head of the byte string.                             *)
HeaderAt == AAD_PREFIX_SIZE + PROTECTED_HEADER_BSTR_PREFIX_SIZE

(* Fault: the end of the header taken without the two bytes of its head.   *)
SealingAadShort(buffer, h) ==
  LET a == Put(buffer, 0, create_aad_prefix)
      b == Put(a, HeaderAt, HeaderBytes(h))
      c == Put(b, AAD_PREFIX_SIZE, AsBytes(cbor_helper_write_bstr_header(HeaderSize(h))))
  IN  Put(c, AAD_PREFIX_SIZE + HeaderSize(h), create_aad_suffix)

SealingAad(buffer, h) ==
  LET a == Put(buffer, 0, create_aad_prefix)
      b == Put(a, HeaderAt, HeaderBytes(h))
      c == Put(b, AAD_PREFIX_SIZE, AsBytes(cbor_helper_write_bstr_header(HeaderSize(h))))
  IN  Put(c, HeaderAt + HeaderSize(h), create_aad_suffix)

SealingAadSize(h) == HeaderAt + HeaderSize(h) + 1

(* Opening encodes it in one go, with whatever head the header needs.      *)
create_aad(h) ==
  create_aad_prefix \o AsBytes(cbor_helper_write_bstr_header(HeaderSize(h)))
    \o HeaderBytes(h) \o create_aad_suffix

-----------------------------------------------------------------------------
(* decode_protected_header: entry by entry.  d is what has been found, and *)
(* the code that ended the decoding, if one did.                           *)

NonceByte(v, i) == <<v, i>>
ZeroByte == <<0, 0>>
ZeroNonce == [i \in 1..CRYPTO_NONCE_SIZE |-> ZeroByte]

(* cbor_value_copy_byte_string: where there is room, a zero after the last *)
(* byte; what lies behind it stays.                                        *)
CopyNonce(old, e) ==
  [i \in 1..CRYPTO_NONCE_SIZE |->
     IF i <= e.len THEN NonceByte(e.val, i)
     ELSE IF i = e.len + 1 THEN ZeroByte ELSE old[i]]

is_known_cose_header(k) == k % UINT32 \in {ALGO, CRIT, NONCE, DEVICE_ID, OPCODE}
AllKnown(list) == \A i \in 1..Len(list) : is_known_cose_header(list[i])

(* Fault: the range of the opcode is not looked at.                        *)
EntryReadableAnyOpcode(e, k) ==
  CASE k = ALGO      -> e.type = "uint" /\ e.val = ENCRYPTION_ALGO_ASCON_AEAD_128
    [] k = CRIT      -> e.type = "array" /\ AllKnown(e.list)
    [] k = NONCE     -> e.type = "bytes" /\ e.len <= CRYPTO_NONCE_SIZE
    [] k = DEVICE_ID -> e.type = "uint" /\ e.val < UINT32
    [] k = OPCODE    -> e.type = "uint"
    [] OTHER         -> TRUE

EntryReadable(e, k) ==
  CASE k = ALGO      -> e.type = "uint" /\ e.val = ENCRYPTION_ALGO_ASCON_AEAD_128
    [] k = CRIT      -> e.type = "array" /\ AllKnown(e.list)
    [] k = NONCE     -> e.type = "bytes" /\ e.len <= CRYPTO_NONCE_SIZE
    [] k = DEVICE_ID -> e.type = "uint" /\ e.val < UINT32
    [] k = OPCODE    -> e.type = "uint" /\ e.val < UINT16
    [] OTHER         -> TRUE

parse_header_map_entry(d, e) ==
  LET k == e.key % UINT32          \* (int)map_key
  IN  IF d.code # "NONE" THEN d    \* an earlier entry has ended the loop
      ELSE IF e.key < 0 \/ ~EntryReadable(e, k) THEN [d EXCEPT !.code = "MESSAGE_PARSING"]
      ELSE CASE k = NONCE     -> [d EXCEPT !.found = @ \cup {k}, !.nonce = CopyNonce(@, e)]
             [] k = DEVICE_ID -> [d EXCEPT !.found = @ \cup {k}, !.device = e.val]
             [] k = OPCODE    -> [d EXCEPT !.found = @ \cup {k}, !.opcode = e.val % UINT16]
             [] k = ALGO      -> [d EXCEPT !.found = @ \cup {k}]
             [] OTHER         -> d

Required == {ALGO, NONCE, DEVICE_ID, OPCODE}

decode_protected_header(h, nonce) ==
  LET start == [code |-> "NONE", found |-> {}, device |-> 0, opcode |-> 0, nonce |-> nonce]
      end == IF h.map /\ Len(h.entries) = COSE_HEADER_MAP_SIZE
             THEN FoldLeft(parse_header_map_entry, start, h.entries) ELSE start
  IN  IF Required \subseteq end.found THEN end ELSE [end EXCEPT !.code = "MESSAGE_PARSING"]

-----------------------------------------------------------------------------
(* A message in transit: whether its outer array is "sound", fails before  *)
(* the associated data is built ("unframed") or after it ("malformed"); the*)
(* header; the head of the cipher text and the length of the operation; and*)
(* what the cipher was given when it sealed.                               *)

Message(shape, h, plain, ad, nonce, key) ==
  [shape |-> shape, header |-> h, head |-> cbor_helper_write_bstr_header(plain + CRYPTO_TAG_SIZE),
   plain |-> plain, ad |-> ad, nonce |-> nonce, key |-> key]

NoMessage == Message("unframed", NotAMap, 0, <<>>, ZeroNonce, "none")

(* The bytes before the sealed operation: array head, header, empty map.   *)
PrefixSize(h) == 1 + BstrHeaderSize(HeaderSize(h)) + HeaderSize(h) + 1

RequiredTotal(h, plain) ==
  PrefixSize(h) + BstrHeaderSize(plain + CRYPTO_TAG_SIZE) + plain + CRYPTO_TAG_SIZE

VARIABLES
  callbacks,     \* the build: with crypto callbacks, or with the key callback
  crypto_ctx,    \* struct crypto_context: associated data (set or NULL), its length, nonce
  aad_buffer,    \* the memory ad points to
  last,          \* the last operation: its arguments, what it returned and called
  left           \* operations the caller may still ask for

vars == <<callbacks, crypto_ctx, aad_buffer, last, left>>

(* cose_init: which userdata each callback of the crypto context is given. *)
crypto_userdata(callback) ==
  CASE callback = "encrypt_data" -> "random_bytes_userdata"
    [] callback = "decrypt_data" -> "random_bytes_userdata"
    [] callback = "get_key"      -> "get_key_userdata"

(* Fault: the nonce of the message before is not cleared.                  *)
ClearedButNonce(ctx) == [ad |-> FALSE, adlen |-> 0, nonce |-> ctx.nonce]

Cleared(ctx) == [ad |-> FALSE, adlen |-> 0, nonce |-> ZeroNonce]

Result(op, msg, room, code, device, opcode, key, calls) ==
  [op |-> op, msg |-> msg, room |-> room, code |-> code,
   device |-> device, opcode |-> opcode, key |-> key, calls |-> calls]

Nothing == Result("none", NoMessage, 0, "NONE", 0, 0, "none", {})

Init ==
  /\ callbacks \in Builds
  /\ crypto_ctx = [ad |-> FALSE, adlen |-> 0, nonce |-> ZeroNonce]
  /\ aad_buffer = [i \in 1..COSE_AAD_MAX_SIZE |-> Byte(0)]
  /\ last = Nothing
  /\ left = MaxOperations

-----------------------------------------------------------------------------
(* crypto.c: the key, or the callback, and the userdata that goes with it. *)
(* The return code of get_key is ignored; its failure leaves zeros.        *)
KeyRead ==
  {"device"} \cup (IF "key" \in Faults /\ ~callbacks THEN {"zero"} ELSE {})

Called(callback) ==
  LET used == IF callbacks THEN callback ELSE "get_key"
  IN  {<<used, crypto_userdata(used)>>}

(* cose_encrypt_msg.                                                       *)
RandomFails(device, opcode) ==
  /\ "random" \in Faults
  /\ crypto_ctx' = Cleared(crypto_ctx)
  /\ last' = Result("seal", NoMessage, 0, "CRYPTOGRAPHIC_FAILURE", device, opcode, "none", {})
  /\ UNCHANGED aad_buffer

Prepare(h, n) ==
  /\ aad_buffer' = SealingAad(aad_buffer, h)
  /\ crypto_ctx' = [Cleared(crypto_ctx) EXCEPT
       !.ad = TRUE, !.adlen = SealingAadSize(h), !.nonce = CopyNonce(@, BytesEntry(NONCE, n, 16))]

SealRefused(device, opcode, n, plain, room) ==
  LET h == encode_protected_header(device, opcode, n)
      refusal == IF PrefixSize(h) > room THEN "MESSAGE_ENCODING" ELSE "BUFFER_TOO_SMALL"
  IN  /\ RequiredTotal(h, plain) > room
      /\ Prepare(h, n)
      /\ last' = Result("seal", NoMessage, room, refusal, device, opcode, "none", {})

SealFails(device, opcode, n, plain, room) ==
  LET h == encode_protected_header(device, opcode, n)
  IN  /\ callbacks /\ "encrypt" \in Faults
      /\ RequiredTotal(h, plain) <= room
      /\ Prepare(h, n)
      /\ last' = Result("seal", NoMessage, room, "MESSAGE_ENCODING", device, opcode,
                        "none", Called("encrypt_data"))

Seal(device, opcode, n, plain, room) ==
  LET h == encode_protected_header(device, opcode, n)
  IN  /\ RequiredTotal(h, plain) <= room
      /\ Prepare(h, n)
      /\ \E key \in KeyRead :
           LET m == Message("sound", h, plain, SubSeq(aad_buffer', 1, crypto_ctx'.adlen),
                            crypto_ctx'.nonce, key)
           IN  last' = Result("seal", m, room, "NONE", device, opcode, key, Called("encrypt_data"))

-----------------------------------------------------------------------------
(* cose_decrypt_msg.  A refusal writes neither output.                     *)
Refuse(m, room, code) == last' = Result("open", m, room, code, 0, 0, "none", {})

(* get_definite_length_byte_string_view: the array is one of three, and its*)
(* first entry one byte string of a definite length.                       *)
Framed(m) == m.shape # "unframed"

OpenUnframed(m, room) ==
  /\ ~Framed(m)
  /\ crypto_ctx' = Cleared(crypto_ctx)
  /\ Refuse(m, room, "MESSAGE_PARSING")
  /\ UNCHANGED aad_buffer

(* create_aad runs out of room: what is written is the items that fit, and *)
(* no length is given.                                                     *)
AadFits(h) == Len(create_aad(h)) <= COSE_AAD_MAX_SIZE

TruncatedAad(h) ==
  LET head == create_aad_prefix \o AsBytes(cbor_helper_write_bstr_header(HeaderSize(h)))
  IN  IF Len(head) + HeaderSize(h) <= COSE_AAD_MAX_SIZE THEN head \o HeaderBytes(h) ELSE head

OpenTooLarge(m, room) ==
  /\ Framed(m)
  /\ ~AadFits(m.header)
  /\ crypto_ctx' = Cleared(crypto_ctx)
  /\ aad_buffer' = Put(aad_buffer, 0, TruncatedAad(m.header))
  /\ Refuse(m, room, "MESSAGE_ENCODING")

HasAad(m) == Framed(m) /\ AadFits(m.header)

WithAad(m, nonce) ==
  /\ aad_buffer' = Put(aad_buffer, 0, create_aad(m.header))
  /\ crypto_ctx' = [ad |-> TRUE, adlen |-> Len(create_aad(m.header)), nonce |-> nonce]

OpenMalformed(m, room) ==
  /\ HasAad(m)
  /\ m.shape = "malformed"
  /\ WithAad(m, Cleared(crypto_ctx).nonce)
  /\ Refuse(m, room, "MESSAGE_PARSING")

Decoded(m) == decode_protected_header(m.header, Cleared(crypto_ctx).nonce)

OpenBadHeader(m, room) ==
  /\ HasAad(m)
  /\ m.shape = "sound"
  /\ Decoded(m).code # "NONE"
  /\ WithAad(m, Decoded(m).nonce)
  /\ Refuse(m, room, Decoded(m).code)

(* decrypt_data: -1 for too little room and for a tag that does not verify;*)
(* what a callback returns is passed on.                                   *)
DecryptCode(m, room, key) ==
  IF room + CRYPTO_TAG_SIZE < m.plain + CRYPTO_TAG_SIZE THEN MinusOne
  ELSE IF /\ m.ad = SubSeq(aad_buffer', 1, crypto_ctx'.adlen)
          /\ m.nonce = crypto_ctx'.nonce
          /\ m.key = key
  THEN "NONE"
  ELSE IF callbacks THEN "CRYPTOGRAPHIC_FAILURE" ELSE MinusOne

Open(m, room) ==
  /\ HasAad(m)
  /\ m.shape = "sound"
  /\ Decoded(m).code = "NONE"
  /\ WithAad(m, Decoded(m).nonce)
  /\ \E key \in KeyRead :
       last' = Result("open", m, room, DecryptCode(m, room, key), Decoded(m).device, Decoded(m).opcode, key,
                      IF room < m.plain THEN {} ELSE Called("decrypt_data"))

-----------------------------------------------------------------------------
(* What arrives: a message the server sealed, under the device's key or    *)
(* another one; one whose header was exchanged on the way; one damaged     *)
(* around it; and what the device itself has just sealed.                  *)

(* The server gives the cipher the canonical associated data and the nonce *)
(* its header says to the device: byte by byte the last nonce entry that   *)
(* reaches so far, or ends just before; zero where none does.              *)
ReachesByte(h, j, i) == h.entries[j].key % UINT32 = NONCE /\ h.entries[j].len + 1 >= i

WireNonce(h) ==
  [i \in 1..CRYPTO_NONCE_SIZE |->
     LET reach == {j \in 1..Len(h.entries) : ReachesByte(h, j, i)}
         e == h.entries[Max(reach)]
     IN  IF reach = {} \/ i > e.len THEN ZeroByte ELSE NonceByte(e.val, i)]

ServerSeals(h, plain, key) ==
  Message("sound", h, plain, create_aad(h), WireNonce(h), key)

(* What may happen to it does not depend on the operation's size: the      *)
(* smallest one stands for all.                                            *)
Genuine == {ServerSeals(h, plain, "device") : h \in ServerHeaders, plain \in OperationSizes}
Smallest == {m \in Genuine : m.plain = Min(OperationSizes)}

Arriving ==
  Genuine
    \cup {[m EXCEPT !.key = "other"] : m \in Smallest}
    \cup {[x[1] EXCEPT !.header = x[2]] :
             x \in {y \in Smallest \X ServerHeaders : <<y[1].header, y[2]>> \in Exchanges}}
    \cup {[m EXCEPT !.shape = s] : m \in Smallest, s \in {"unframed", "malformed"}}

cose_encrypt_msg(device, opcode) ==
  \/ RandomFails(device, opcode)
  \/ \E n \in Nonces, plain \in OperationSizes, room \in BufferSizes :
       \/ SealRefused(device, opcode, n, plain, room)
       \/ SealFails(device, opcode, n, plain, room)
       \/ Seal(device, opcode, n, plain, room)

cose_decrypt_msg(m, room) ==
  \/ OpenUnframed(m, room) \/ OpenTooLarge(m, room) \/ OpenMalformed(m, room)
  \/ OpenBadHeader(m, room) \/ Open(m, room)

(* The caller takes the result, asks for another operation, or has the     *)
(* message it has just sealed come back.                                   *)
TakeResult ==
  /\ last # Nothing
  /\ last' = Nothing
  /\ UNCHANGED <<callbacks, crypto_ctx, aad_buffer, left>>

Ask == last = Nothing /\ left > 0 /\ left' = left - 1 /\ UNCHANGED callbacks

AskToSeal == Ask /\ \E device \in Devices, opcode \in Opcodes : cose_encrypt_msg(device, opcode)
AskToOpen == Ask /\ \E m \in Arriving, room \in BufferSizes : cose_decrypt_msg(m, room)

OwnMessageReturns ==
  /\ last.op = "seal"
  /\ last.code = "NONE"
  /\ \E room \in BufferSizes : cose_decrypt_msg(last.msg, room)
  /\ UNCHANGED <<callbacks, left>>

Next == AskToSeal \/ AskToOpen \/ OwnMessageReturns \/ TakeResult

Spec == Init /\ [][Next]_vars
=============================================================================
