--------------------------- MODULE CodecProperties --------------------------
(***************************************************************************)
(* What cose_encrypt_msg and cose_decrypt_msg are meant to do, stated      *)
(* about the message alone: nothing of it mentions the context or the      *)
(* messages before.                                                        *)
(***************************************************************************)
EXTENDS CoseCodec

(* What a protected header says, read as a set of entries.                 *)
Positions(h, k) == {j \in 1..Len(h.entries) : h.entries[j].key % UINT32 = k}
LastValue(h, k) == h.entries[Max(Positions(h, k))].val

IsUint(e, bound) == e.type = "uint" /\ e.val \in 0..bound - 1

Acceptable(h) ==
  LET all(k, P(_)) == \A j \in Positions(h, k) : P(h.entries[j])
  IN  /\ h.map
      /\ Len(h.entries) = COSE_HEADER_MAP_SIZE
      /\ \A e \in Range(h.entries) : e.key \in Nat
      /\ \A k \in {ALGO, NONCE, DEVICE_ID, OPCODE} : Positions(h, k) # {}
      /\ all(ALGO, LAMBDA e : IsUint(e, UINT32) /\ e.val = ENCRYPTION_ALGO_ASCON_AEAD_128)
      /\ all(NONCE, LAMBDA e : e.type = "bytes" /\ e.len <= CRYPTO_NONCE_SIZE)
      /\ all(DEVICE_ID, LAMBDA e : IsUint(e, UINT32))
      /\ all(OPCODE, LAMBDA e : IsUint(e, UINT16))
      /\ all(CRIT, LAMBDA e : /\ e.type = "array"
                              /\ {k % UINT32 : k \in Range(e.list)}
                                   \subseteq {ALGO, CRIT, NONCE, DEVICE_ID, OPCODE})

(* The length a byte string head announces.                                *)
HeadLength(head) ==
  CASE head[1] < 88 -> head[1] - 64
    [] head[1] = 88 -> head[2]
    [] head[1] = 89 -> 256 * head[2] + head[3]
    [] OTHER        -> 256 * (256 * (256 * head[2] + head[3]) + head[4]) + head[5]

-----------------------------------------------------------------------------
(* cose_encrypt_msg: the associated data is built in place, around the     *)
(* header, in a buffer that holds an earlier message; what the cipher is   *)
(* given is still the encoding the other side computes in one go.  The     *)
(* header names this device, opcode and nonce, the head of the cipher text *)
(* its length, and a message is refused only if it does not fit.           *)
SealedCanonically ==
  (last.op = "seal" /\ last.code = "NONE") =>
    LET m == last.msg
        h == m.header
    IN  /\ m.ad = create_aad(h)
        /\ Acceptable(h)
        /\ LastValue(h, DEVICE_ID) = last.device
        /\ LastValue(h, OPCODE) = last.opcode
        /\ m.nonce = WireNonce(h)
        /\ HeadLength(m.head) = m.plain + CRYPTO_TAG_SIZE
        /\ RequiredTotal(h, m.plain) <= last.room

(* cose_decrypt_msg: a message opens exactly when its frame is sound, its  *)
(* header is one the protocol allows and no larger than the protocol       *)
(* allows, and the cipher had sealed it under the same key, nonce and      *)
(* header; whatever was sealed or opened before, and whatever a previous   *)
(* message left in the buffer.                                             *)
WellFormed(m) ==
  /\ m.shape = "sound"
  /\ HeaderSize(m.header) <= COSE_PROTECTED_HEADER_MAX_SIZE
  /\ Acceptable(m.header)

Intact(m) == m.ad = create_aad(m.header) /\ m.nonce = WireNonce(m.header)

OpensExactly ==
  last.op = "open" =>
    LET m == last.msg
    IN  last.code = "NONE" <=>
          /\ WellFormed(m)
          /\ Intact(m)
          /\ last.key = m.key
          /\ m.plain <= last.room

(* cose_decrypt_msg: the device id and the opcode it returns, and the      *)
(* nonce it hands to the cipher, are those the header of this message says,*)
(* also if the header says them twice or gives a short nonce: nothing of   *)
(* the message before is left in them, whether or not the tag verifies.    *)
OpenedFields ==
  (last.op = "open" /\ WellFormed(last.msg)) =>
    /\ last.device = LastValue(last.msg.header, DEVICE_ID)
    /\ last.opcode = LastValue(last.msg.header, OPCODE)
    /\ crypto_ctx.nonce = WireNonce(last.msg.header)

(* struct firmups_sdk_api has a userdata of its own for each callback: a   *)
(* callback is called with that one.                                       *)
UserdataOf ==
  [encrypt_data |-> "encrypt_data_userdata", decrypt_data |-> "decrypt_data_userdata",
   get_key |-> "get_key_userdata"]

CallbackUserdata == \A c \in last.calls : c[2] = UserdataOf[c[1]]
=============================================================================
