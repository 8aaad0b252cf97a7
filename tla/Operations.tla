----------------------------- MODULE Operations -----------------------------
(***************************************************************************)
(* src/operation: the request each call encodes, and what each response    *)
(* parser makes of the operation buffer it is given.                       *)
(*                                                                         *)
(* A call is a record [op, ctx, ptr, id, type, size]: the public function, *)
(* the context, whether its pointer arguments are non-null, and its        *)
(* parameter/firmware id, parameter type or status, and buffer size.       *)
(***************************************************************************)
EXTENDS CborSizes

CONSTANT UINT32     \* 2^32, or a smaller stand-in: TLC's integers are signed 32-bit
ASSUME UINT32Assumption == UINT32 \in Nat \ {0}

UINT8 == 256

MessageOps == {"get_parameter", "get_device_info", "set_device_info", "get_chunk"}
Op == MessageOps \cup {"download_initialize", "finish", "gateway"}

-----------------------------------------------------------------------------
(* The operation_create_..._request functions.  d is the download context. *)

RequestOpcode(op) ==
  CASE op = "get_parameter"   -> OPERATION_ID_GET_PARAMETER_REQUEST
    [] op = "get_device_info" -> OPERATION_ID_GET_DEVICE_INFO_REQUEST
    [] op = "set_device_info" -> OPERATION_ID_SET_DEVICE_INFO_REQUEST
    [] op = "get_chunk"       -> OPERATION_ID_GET_FIRMWARE_REQUEST

operation_create_get_parameter_request(k) == Array(<<Uint(k.id), Uint(k.type)>>)
operation_create_get_device_info_request(dev) == Array(<<Uint(dev)>>)
operation_create_set_device_info_request(k) == Array(<<Uint(k.id), Uint(k.type)>>)
operation_create_get_firmware_request(d) ==
  Array(<<Uint(d.firmware_id), Uint(d.offset), Uint(d.chunk_size)>>)

RequestPayload(k, dev, d) ==
  CASE k.op = "get_parameter"   -> operation_create_get_parameter_request(k)
    [] k.op = "get_device_info" -> operation_create_get_device_info_request(dev)
    [] k.op = "set_device_info" -> operation_create_set_device_info_request(k)
    [] k.op = "get_chunk"       -> operation_create_get_firmware_request(d)

-----------------------------------------------------------------------------
(* Parsing.  What a parser sees in a frame that is not an array operation  *)
(* is no items, and its first type test fails.                             *)

Fields(f) == IF f.kind = "plain" /\ f.body.array THEN f.body.items ELSE <<>>
FirstItem(f) ==
  IF f.kind = "plain" /\ ~f.body.array /\ f.body.items # <<>>
  THEN f.body.items[1] ELSE NoItem

(* The first i fields are there and of the types the parser expects.       *)
Reads(fields, types, i) ==
  \A j \in 1..i : j <= Len(fields) /\ fields[j].type \in types[j]

(* operation_parse_error_response: the return codes it may yield.  An      *)
(* operation other than an error is left to the next parser; an error with *)
(* one unsigned item is translated.  Of more items the first is translated *)
(* too, unless the CBOR library objects to leaving the array early; and of *)
(* bytes nothing is known about, every failure is possible.                *)
ErrorMeaning(code) ==
  CASE code = InvalidOperation -> "UNSUPPORTED_OPERATION"
    [] code = UnknownParameter -> "INVALID_ARGUMENT"
    [] code \in {DeviceNotFound, FirmwareNotFound} -> "NOT_FOUND"
    [] OTHER -> "UNEXPECTED_RESPONSE"

operation_parse_error_response(opcode, f) ==
  IF opcode # OPERATION_ID_ERROR THEN {"NONE"}
  ELSE IF f.kind = "garbage"
  THEN {"OPERATION_PARSING", "UNSUPPORTED_OPERATION", "UNEXPECTED_RESPONSE",
        "INVALID_ARGUMENT", "NOT_FOUND"}
  ELSE IF Fields(f) # <<>> /\ Fields(f)[1].type = "uint"
  THEN {ErrorMeaning(Fields(f)[1].val)}
         \cup (IF Len(Fields(f)) = 1 THEN {} ELSE {"OPERATION_PARSING"})
  ELSE {"OPERATION_PARSING"}

(* operation_parse_get_parameter_response into a buffer of the given size: *)
(* the code, the value written and the size reported.                      *)
Integral(type) == type \in {INTEGER, BOOLEAN_TYPE}
Textual(type)  == type \in {STRING_TYPE, BINARY}

Scalars(type) ==
  CASE Integral(type)  -> {"uint", "nint"}
    [] type = FLOAT    -> {"float"}
    [] type = DOUBLE   -> {"double"}
    [] Textual(type)   -> {"bytes"}

(* cbor_value_get_int64_checked: an argument of 2^63 and more is refused.  *)
Int64(val) == val \div UINT32 < UINT32 \div 2

ScalarSize(type) ==
  CASE type \in {INTEGER, DOUBLE} -> 8
    [] type = FLOAT               -> 4
    [] type = BOOLEAN_TYPE        -> 1

(* (bool_value != 0); a negative integer of argument n is -1 - n.          *)
Truth(it) == IF it.type = "uint" /\ it.val = 0 THEN 0 ELSE 1

(* Fault: no room kept for the terminator.                                 *)
FitsExactly(len, size) == len <= size

FitsBuffer(len, size) == len < size

operation_parse_get_parameter_response(opcode, type, f, size, osize) ==
  LET it == FirstItem(f)
      result(code, v, n) == [code |-> code, item |-> v, size |-> n]
  IN  IF opcode # OPERATION_ID_GET_PARAMETER_RESPONSE
      THEN result("UNEXPECTED_RESPONSE", NoItem, osize)
      ELSE IF ~Integral(type) /\ ~Textual(type) /\ type \notin {FLOAT, DOUBLE}
      THEN result("INVALID_ARGUMENT", NoItem, osize)
      ELSE IF it.type \notin Scalars(type) \/ (Integral(type) /\ ~Int64(it.val))
      THEN result("OPERATION_PARSING", NoItem, osize)
      ELSE IF ~Textual(type)
      THEN IF size < ScalarSize(type)
           THEN result("BUFFER_TOO_SMALL", NoItem, osize)
           ELSE result("NONE", IF type = BOOLEAN_TYPE THEN Uint(Truth(it)) ELSE it, osize)
      ELSE IF it.len > size               \* cbor_value_copy_byte_string: out of memory
      THEN result("OPERATION_PARSING", NoItem, osize)
      ELSE IF ~FitsBuffer(it.len, size)
      THEN result("BUFFER_TOO_SMALL", NoItem, osize)
      ELSE result("NONE", it, IF type = STRING_TYPE THEN it.len + 1 ELSE it.len)

(* operation_parse_get_device_info_response and ..._set_..._response: the  *)
(* code, and the three fields, of which those read before a failure have   *)
(* been overwritten.                                                       *)
InfoFields(opcode, wanted, f, types, old) ==
  LET its == Fields(f)
      read(i) == IF its[i].type = "null" THEN 0
                 ELSE its[i].val % (IF i = 3 THEN UINT8 ELSE UINT32)
  IN  IF opcode # wanted THEN [code |-> "UNEXPECTED_RESPONSE", vals |-> old]
      ELSE [code |-> IF Reads(its, types, 3) THEN "NONE" ELSE "OPERATION_PARSING",
            vals |-> [i \in 1..3 |-> IF Reads(its, types, i) THEN read(i) ELSE old[i]]]

(* Fault: the two firmware fields exchanged.                               *)
ParseInfoSwapped(opcode, f, old) ==
  LET r == InfoFields(opcode, OPERATION_ID_GET_DEVICE_INFO_RESPONSE, f,
                      << {"uint", "null"}, {"uint"}, {"uint"} >>, old)
  IN  [r EXCEPT !.vals = <<r.vals[2], r.vals[1], r.vals[3]>>]

operation_parse_get_device_info_response(opcode, f, old) ==
  InfoFields(opcode, OPERATION_ID_GET_DEVICE_INFO_RESPONSE, f,
             << {"uint", "null"}, {"uint"}, {"uint"} >>, old)

operation_parse_set_device_info_response(opcode, f, old) ==
  InfoFields(opcode, OPERATION_ID_SET_DEVICE_INFO_RESPONSE, f,
             << {"uint"}, {"uint"}, {"uint"} >>, old)

(* The length of the data is read with cbor_value_get_uint64 and no look   *)
(* at the type of the field: what comes out is the argument of its head.   *)
Length(it) ==
  CASE it.type = "bytes" -> it.len
    [] it.type = "null"  -> 22
    [] OTHER             -> it.val

(* operation_parse_get_firmware_response: the code, the firmware id and    *)
(* offset the server echoes, and the data copied to a buffer of that size. *)
operation_parse_get_firmware_response(opcode, f, size) ==
  LET its == Fields(f)
      wanted == << {"uint"}, {"uint"}, ItemType >>
      echo(i) == IF Reads(its, wanted, i) THEN its[i].val % UINT32 ELSE 0
      result(code, d) == [code |-> code, vals |-> <<echo(1), echo(2), 0>>, data |-> d]
  IN  IF opcode # OPERATION_ID_GET_FIRMWARE_RESPONSE
      THEN [code |-> "UNEXPECTED_RESPONSE", vals |-> <<0, 0, 0>>, data |-> NoItem]
      ELSE IF ~Reads(its, wanted, 3) THEN result("OPERATION_PARSING", NoItem)
      ELSE IF Length(its[3]) > size THEN result("BUFFER_TOO_SMALL", NoItem)
      ELSE IF Len(its) < 4 \/ its[4].type # "bytes" \/ its[4].len > size
      THEN result("OPERATION_PARSING", NoItem)
      ELSE IF its[4].len # Length(its[3]) THEN result("OPERATION_PARSING", its[4])
      ELSE result("NONE", its[4])
=============================================================================
