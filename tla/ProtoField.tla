----------------------------- MODULE ProtoField -----------------------------
(***************************************************************************)
(* gasmonitor.go: the base gas price out of the bytes of a StateResponse,  *)
(* read without a protobuf library: the State is field 1 of the response   *)
(* and the price field 1 of the State.                                     *)
(*                                                                         *)
(*     message State { string base_gas_price = 1; string learning_rate = 2; *)
(*                     repeated uint64 window = 3; uint64 index = 4; }      *)
(*                                                                         *)
(* The reader takes a length to be one byte, where the encoding has a      *)
(* varint: seven bits a byte, the eighth says that another byte follows.   *)
(***************************************************************************)
EXTENDS Naturals, Sequences

CONSTANT
  Responses     \* the possible answers of the node, as records (see Encode)

VARIABLES
  response,     \* the answer: the State, and where the bytes are cut, if so
  data, pos,    \* what extractProtoField reads, and how far it is
  level,        \* which field it is after: "response" or "state"
  reader,       \* "reading", then "price" or "error"
  price         \* the bytes of the price

protoVars == <<response, data, pos, level, reader, price>>

TargetField == 1
Varint == 0
LengthDelimited == 2
Continues(byte) == byte >= 128

-----------------------------------------------------------------------------
(* The encoding of the node.  Fields with the default value are left out.  *)

\* For numbers of at most 14 bits.
EncodeVarint(n) == IF n < 128 THEN <<n>> ELSE <<(n % 128) + 128, n \div 128>>
EncodeBytes(field, bytes) ==
  <<8 * field + LengthDelimited>> \o EncodeVarint(Len(bytes)) \o bytes
Unless(default, value, encoded) == IF value = default THEN <<>> ELSE encoded

EncodeState(s) ==
  Unless(<<>>, s.price, EncodeBytes(1, s.price))
    \o Unless(<<>>, s.rate, EncodeBytes(2, s.rate))
    \o Unless(<<>>, s.window, EncodeBytes(3, s.window))
    \o Unless(0, s.index, <<8 * 4 + Varint>> \o EncodeVarint(s.index))

Encode(r) ==
  LET bytes == EncodeBytes(1, EncodeState(r.state))
  IN  IF r.cut < Len(bytes) THEN SubSeq(bytes, 1, r.cut) ELSE bytes

\* The price and the rate are decimals, the window a handful of numbers.
ASSUME ResponsesAssumption ==
  /\ Responses # {}
  /\ \A r \in Responses :
       /\ r.cut \in Nat
       /\ {r.state.price, r.state.rate, r.state.window} \subseteq Seq(Nat)
       /\ r.state.index \in Nat /\ r.state.index < 128 * 128
       /\ Len(EncodeState(r.state)) < 256

-----------------------------------------------------------------------------
(* The reader.  Go's data[i] is data[i + 1] here: pos bytes are read.      *)

ProtoInit(responses) ==
  /\ response \in responses
  /\ data = Encode(response)
  /\ pos = 0
  /\ level = "response"
  /\ reader = IF data = <<>> THEN "error" ELSE "reading"
  /\ price = <<>>

Field == data[pos + 1] \div 8
WireType == data[pos + 1] % 8
Length == data[pos + 2]

\* The length byte and the field it announces are within the data.
FitsIn == pos + 2 <= Len(data) /\ pos + 2 + Length <= Len(data)

\* The value of the field at pos.
Value == SubSeq(data, pos + 3, pos + 2 + Length)

\* Mutant: the first length-delimited field is taken.
IsTarget_Any == TRUE

IsTarget == Field = TargetField

IsField(type) == reader = "reading" /\ pos < Len(data) /\ WireType = type

\* The field is found in the response: on to the State.
Unwrap ==
  /\ IsField(LengthDelimited) /\ FitsIn
  /\ IsTarget /\ level = "response"
  /\ data' = Value
  /\ pos' = 0
  /\ level' = "state"
  /\ UNCHANGED <<response, reader, price>>

\* The field is found in the State: it must be a number.
TakePrice ==
  /\ IsField(LengthDelimited) /\ FitsIn
  /\ IsTarget /\ level = "state"
  /\ price' = Value
  /\ reader' = IF Value = <<>> THEN "error" ELSE "price"
  /\ UNCHANGED <<response, data, pos, level>>

SkipField ==
  /\ IsField(LengthDelimited) /\ FitsIn
  /\ ~IsTarget
  /\ pos' = pos + 2 + Length
  /\ UNCHANGED <<response, data, level, reader, price>>

\* Up to and including the first byte that nothing follows.
SkipVarint ==
  /\ IsField(Varint)
  /\ LET ends == {i \in pos + 2 .. Len(data) : ~Continues(data[i])}
     IN  pos' = IF ends = {} THEN Len(data) + 1
                ELSE CHOOSE i \in ends : \A j \in ends : i <= j
  /\ UNCHANGED <<response, data, level, reader, price>>

\* A truncated field, another wire type, or no such field.
ReadFails ==
  /\ reader = "reading"
  /\ pos < Len(data) => WireType # Varint /\ (WireType = LengthDelimited => ~FitsIn)
  /\ reader' = "error"
  /\ UNCHANGED <<response, data, pos, level, price>>

ProtoNext == Unwrap \/ TakePrice \/ SkipField \/ SkipVarint \/ ReadFails
=============================================================================
