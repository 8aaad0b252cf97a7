------------------------------- MODULE Backend ------------------------------
(***************************************************************************)
(* The server the SDK talks to: not part of the repository.  It is what    *)
(* src/ expects of it: it opens a request sealed with the device's key,    *)
(* answers with the response that belongs to the request, or with an error *)
(* operation when the parameter, device or firmware is unknown to it.      *)
(***************************************************************************)
EXTENDS Operations

CONSTANTS
  Params,      \* parameter id -> the item stored under it
  Images,      \* firmware id -> size of its image in bytes
  Desired      \* device id -> its desired firmware item, NoItem if it has no record

ServerDevices == DOMAIN Desired

(* A device record: the firmware and status the device last reported.      *)
Record == [firmware : Item, status : Nat]

ErrorReply(code) == [opcode |-> OPERATION_ID_ERROR, body |-> Array(<<Uint(code)>>)]
Reply(opcode, body) == [opcode |-> opcode, body |-> body]

InfoBody(rec, dev) == Array(<<rec.firmware, Desired[dev], Uint(rec.status)>>)

(* A request the server can decode: an array of unsigned integers, as many *)
(* as the operation has.                                                   *)
RequestLength(opcode) ==
  CASE opcode = OPERATION_ID_GET_PARAMETER_REQUEST   -> 2
    [] opcode = OPERATION_ID_GET_DEVICE_INFO_REQUEST -> 1
    [] opcode = OPERATION_ID_SET_DEVICE_INFO_REQUEST -> 2
    [] opcode = OPERATION_ID_GET_FIRMWARE_REQUEST    -> 3
    [] OTHER                                         -> 0

Decodable(h, p) ==
  /\ p.array
  /\ Len(p.items) = RequestLength(h.opcode)
  /\ \A i \in 1..Len(p.items) : p.items[i].type = "uint"

(* The record of a device after the request.                               *)
RecordAfter(h, p, rec) ==
  IF /\ h.opcode = OPERATION_ID_SET_DEVICE_INFO_REQUEST
     /\ Decodable(h, p)
     /\ Desired[h.dev] # NoItem
  THEN [firmware |-> p.items[1], status |-> p.items[2].val]
  ELSE rec

(* The bytes of the image of firmware fw from offset, at most len.         *)
Slice(fw, offset, len) ==
  IF offset >= Images[fw] THEN Bytes(fw, offset, 0)
  ELSE Bytes(fw, offset, IF Images[fw] - offset < len THEN Images[fw] - offset ELSE len)

ParameterReply(id) ==
  IF id \in DOMAIN Params
  THEN Reply(OPERATION_ID_GET_PARAMETER_RESPONSE, Scalar(Params[id]))
  ELSE ErrorReply(UnknownParameter)

InfoReply(opcode, dev, rec) ==
  IF Desired[dev] = NoItem THEN ErrorReply(DeviceNotFound)
  ELSE Reply(opcode, InfoBody(rec, dev))

FirmwareReply(fw, offset, len) ==
  IF fw \in DOMAIN Images
  THEN LET d == Slice(fw, offset, len)
       IN  Reply(OPERATION_ID_GET_FIRMWARE_RESPONSE,
                 Array(<<Uint(fw), Uint(offset), Uint(d.len), d>>))
  ELSE ErrorReply(FirmwareNotFound)

ServerReply(h, p, rec) ==
  IF RequestLength(h.opcode) = 0 THEN ErrorReply(InvalidOperation)
  ELSE IF ~Decodable(h, p) THEN ErrorReply(DecodingError)
  ELSE CASE h.opcode = OPERATION_ID_GET_PARAMETER_REQUEST -> ParameterReply(p.items[1].val)
         [] h.opcode = OPERATION_ID_GET_DEVICE_INFO_REQUEST ->
              InfoReply(OPERATION_ID_GET_DEVICE_INFO_RESPONSE, h.dev, rec)
         [] h.opcode = OPERATION_ID_SET_DEVICE_INFO_REQUEST ->
              InfoReply(OPERATION_ID_SET_DEVICE_INFO_RESPONSE, h.dev, RecordAfter(h, p, rec))
         [] OTHER -> FirmwareReply(p.items[1].val, p.items[2].val, p.items[3].val)
=============================================================================
