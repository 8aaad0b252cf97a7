------------------------------ MODULE SdkTypes ------------------------------
(***************************************************************************)
(* The vocabulary of the device SDK: return codes, operation codes, and    *)
(* the values that travel between the application, the SDK and the server. *)
(* An operation is kept as the CBOR items it is made of, a COSE message as *)
(* its protected header, the key that sealed it and the operation inside.  *)
(***************************************************************************)
EXTENDS Integers, Sequences

(* enum firmups_sdk_error_code, without its FIRMUPS_SDK_ERROR_ prefix.     *)
ErrorCode ==
  {"NONE", "INVALID_ARGUMENT", "BUFFER_TOO_SMALL", "CRYPTOGRAPHIC_FAILURE",
   "COMMUNICATION_FAILURE", "UNEXPECTED_RESPONSE", "TIMEOUT",
   "NOT_INITIALIZED", "ALREADY_INITIALIZED", "UNSUPPORTED_OPERATION",
   "OPERATION_ENCODING", "OPERATION_PARSING", "MESSAGE_ENCODING",
   "MESSAGE_PARSING", "UNSUPPORTED_CONCURRENCY", "NOT_FOUND"}

(* The value -1, which crypto.c and the AEAD primitives return.            *)
MinusOne == "-1"

(* What an int-sized return code of the SDK may hold.                      *)
ReturnValue == ErrorCode \cup {MinusOne}

-----------------------------------------------------------------------------
(* enum operation_id *)
OPERATION_ID_ERROR                    == 1
OPERATION_ID_GET_PARAMETER_REQUEST    == 2
OPERATION_ID_GET_PARAMETER_RESPONSE   == 3
OPERATION_ID_GET_DEVICE_INFO_REQUEST  == 6
OPERATION_ID_GET_DEVICE_INFO_RESPONSE == 7
OPERATION_ID_SET_DEVICE_INFO_REQUEST  == 8
OPERATION_ID_SET_DEVICE_INFO_RESPONSE == 9
OPERATION_ID_GET_FIRMWARE_REQUEST     == 10
OPERATION_ID_GET_FIRMWARE_RESPONSE    == 11

(* enum operation_error_code: what the server puts in an error response.   *)
InvalidOperation == 0
DecodingError    == 1
UnknownParameter == 3
DeviceNotFound   == 4
FirmwareNotFound == 5

(* enum firmups_sdk_parameter_type *)
INTEGER == 1
BOOLEAN_TYPE == 2
FLOAT   == 3
DOUBLE  == 4
STRING_TYPE == 5
BINARY  == 6

-----------------------------------------------------------------------------
(* A CBOR item: its major type, its numeric value (for a byte string, the  *)
(* name of the content), and for a byte string the position its bytes      *)
(* start at in that content and their number.                              *)
ItemType == {"uint", "nint", "null", "float", "double", "bytes", "none"}
Item == [type : ItemType, val : Nat, pos : Nat, len : Nat]

Uint(n)          == [type |-> "uint", val |-> n, pos |-> 0, len |-> 0]
Null             == [type |-> "null", val |-> 0, pos |-> 0, len |-> 0]
Bytes(v, at, n)  == [type |-> "bytes", val |-> v, pos |-> at, len |-> n]
NoItem           == [type |-> "none", val |-> 0, pos |-> 0, len |-> 0]

(* An operation: an array of items, or (a parameter response) one bare     *)
(* item.                                                                   *)
Payload    == [array : BOOLEAN, items : Seq(Item)]
Array(its) == [array |-> TRUE, items |-> its]
Scalar(it) == [array |-> FALSE, items |-> <<it>>]
NoPayload  == [array |-> FALSE, items |-> <<>>]

(* The protected header of a COSE message, nonce 0 being sixteen zeros.    *)
Header   == [dev : Nat, opcode : Nat, nonce : Nat]
NoHeader == [dev |-> 0, opcode |-> 0, nonce |-> 0]

(* The content of a buffer.  "garbage": bytes nothing is known about;      *)
(* "plain": an encoded operation; "cose": a message sealed under key;      *)
(* "data": bytes of a firmware image.  Key n belongs to device n, key 0 is *)
(* the all-zero key, and key NoKey no one holds: the tag does not verify.  *)
ZeroKey == 0
NoKey   == 99
FrameKind == {"garbage", "plain", "cose", "data"}
Frame == [kind : FrameKind, hdr : Header, key : Nat, body : Payload]

Garbage        == [kind |-> "garbage", hdr |-> NoHeader, key |-> 0, body |-> NoPayload]
Plain(p)       == [kind |-> "plain", hdr |-> NoHeader, key |-> 0, body |-> p]
Cose(h, k, p)  == [kind |-> "cose", hdr |-> h, key |-> k, body |-> p]
Data(it)       == [kind |-> "data", hdr |-> NoHeader, key |-> 0, body |-> Scalar(it)]

(* The bytes of a byte-string item, each named by content and position.    *)
BytesOf(it) == [i \in 1..it.len |-> <<it.val, it.pos + i - 1>>]
=============================================================================
