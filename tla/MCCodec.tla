------------------------------- MODULE MCCodec ------------------------------
(***************************************************************************)
(* The codec with a handful of headers, each odd in a way of its own.      *)
(***************************************************************************)
EXTENDS CodecProperties

Algo == UintEntry(ALGO, ENCRYPTION_ALGO_ASCON_AEAD_128)
Crit == ListEntry(CRIT, <<DEVICE_ID, OPCODE>>)
With(e1, e2, e3, e4, e5) == Map(<<e1, e2, e3, e4, e5>>)
N(v, n) == BytesEntry(NONCE, v, n)
Dev(d) == UintEntry(DEVICE_ID, d)
Opc(o) == UintEntry(OPCODE, o)

Standard == encode_protected_header(1, 3, 4)

MCServerHeaders ==
  { Standard,                                          \* as the device writes it
    With(Opc(11), Dev(70000), N(5, 16), Crit, Algo),   \* another order
    With(Algo, N(5, 8), Crit, Dev(1), Opc(3)),         \* a short nonce
    With(Algo, N(5, 17), Crit, Dev(1), Opc(3)),        \* a long one
    With(Algo, N(4, 16), N(5, 4), Dev(1), Opc(3)),     \* two nonces, no crit
    With(Algo, N(4, 16), Opc(2), Dev(1), Opc(3)),      \* two opcodes
    With(Algo, N(4, 16), Crit, Dev(1), Dev(2)),        \* no opcode
    With(Algo, N(4, 16), Crit, Dev(1), Opc(65539)),    \* opcode 3 in 16 bits
    With(Algo, N(4, 16), Crit, Dev(UINT32 + 1), Opc(3)),
    With(Algo, N(4, 16), Crit, Dev(1), UintEntry(UINT32 + OPCODE, 3)),
    With(Algo, N(4, 16), ListEntry(CRIT, <<DEVICE_ID, 9>>), Dev(1), Opc(3)),
    With(Algo, N(4, 16), BytesEntry(UINT32 + NONCE, 5, 16), Dev(1), Opc(3)),
    With(UintEntry(ALGO, 1), N(4, 16), Crit, Dev(1), Opc(3)),
    With(Algo, N(4, 16), UintEntry(-1, 0), Dev(1), Opc(3)),
    With(Algo, N(4, 16), BytesEntry(9, 6, 12), Dev(1), Opc(3)),   \* 51 bytes
    With(Algo, N(4, 16), BytesEntry(9, 6, 13), Dev(1), Opc(3)),   \* 52 bytes
    NotAMap }

MCExchanges == {<<h, g>> \in MCServerHeaders \X MCServerHeaders : h # g /\ Standard \in {h, g}}
=============================================================================
