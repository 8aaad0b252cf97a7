------------------------------ MODULE CborSizes -----------------------------
(***************************************************************************)
(* How many bytes the encoders of the SDK produce.  Sizes decide which     *)
(* requests, replies and chunks fit the buffers, so they are the real ones.*)
(***************************************************************************)
EXTENDS SdkTypes, SequencesExt

CRYPTO_TAG_SIZE == 16
COSE_PROTECTED_HEADER_MAX_SIZE == 51
COSE_HEADER_SIZE == COSE_PROTECTED_HEADER_MAX_SIZE + 4

(* The bytes of a CBOR head whose argument is n (n < 2^32 in this code).   *)
UintSize(n) == IF n <= 23 THEN 1
               ELSE IF n <= 255 THEN 2
               ELSE IF n <= 65535 THEN 3 ELSE 5

(* cbor_helper_bstr_header_size *)
BstrHeaderSize(len) == UintSize(len)

ItemSize(it) ==
  CASE it.type \in {"uint", "nint"} -> UintSize(it.val)
    [] it.type = "float"            -> 5
    [] it.type = "double"           -> 9
    [] it.type = "bytes"            -> BstrHeaderSize(it.len) + it.len
    [] OTHER                        -> 1

(* An encoded operation: the head of the array, if it is one, and the      *)
(* items.                                                                  *)
PayloadSize(p) ==
  FoldSeq(LAMBDA it, n : n + ItemSize(it), IF p.array THEN 1 ELSE 0, p.items)

(* encode_protected_header: the five entries of the header map; only the   *)
(* device id and the opcode vary in length.                                *)
ProtectedHeaderSize(h) == 36 + UintSize(h.dev) + UintSize(h.opcode)

(* The sealed operation: plaintext and tag.                                *)
CipherSize(p) == PayloadSize(p) + CRYPTO_TAG_SIZE

(* A whole message: array head, protected header with its two-byte byte    *)
(* string head, empty map, and the byte string of the sealed operation     *)
(* (required_total of add_byte_string_to_buffer).                          *)
MessageSize(h, p) ==
  1 + 2 + ProtectedHeaderSize(h) + 1 + BstrHeaderSize(CipherSize(p)) + CipherSize(p)
=============================================================================
