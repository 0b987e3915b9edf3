------------------------------ MODULE TensorCodec ------------------------------
(***************************************************************************)
(* How a tensor crosses the wire (rpc_utils.py).  A tensor is a view of a  *)
(* storage: element idx is at offset + the sum of idx[j] * strides[j].     *)
(* tensor_to_proto reads the memory itself, through ctypes, and decides by *)
(* the strides whether the elements lie in the order they are sent in;     *)
(* proto_to_tensor_normal lays them out one after the other.               *)
(*                                                                         *)
(* Addresses are counted in elements, and the contents of a cell is its    *)
(* address.                                                                *)
(***************************************************************************)
EXTENDS Integers, Sequences

CONSTANTS
  Cells,       \* how many elements the storage has
  MaxRank,     \* of a tensor
  Dims, Strides, Offsets

ASSUME CellsAreANumber == Cells \in Nat
ASSUME LayoutsAreNumbers == Dims \subseteq Nat /\ Strides \subseteq Nat /\ Offsets \subseteq Nat
ASSUME RankIsANumber == MaxRank \in Nat

VARIABLES
  tensor,   \* the tensor to send
  at,       \* where the codec is
  dim,      \* the dimension the loop has come to
  exp,      \* the stride it expects there
  raw,      \* raw_data
  touched,  \* the addresses ctypes was told to read
  out       \* the elements of the tensor that arrives
codecVars == <<tensor, at, dim, exp, raw, touched, out>>

Rank(t) == Len(t.shape)

(* Of each dimension, how many elements it has with those behind it.       *)
Span(t) ==
  LET span[j \in 1 .. Rank(t) + 1] == IF j > Rank(t) THEN 1 ELSE t.shape[j] * span[j + 1]
  IN  span
Numel(t) == Span(t)[1]

Total(s) ==
  LET from[j \in 1 .. Len(s) + 1] == IF j > Len(s) THEN 0 ELSE s[j] + from[j + 1]
  IN  from[1]

Indices(t) == {idx \in [1 .. Rank(t) -> Nat \cap UNION {0 .. d : d \in Dims}] :
                 \A j \in 1 .. Rank(t) : idx[j] < t.shape[j]}
Address(t, idx) == t.offset + Total([j \in 1 .. Rank(t) |-> idx[j] * t.strides[j]])

(* Where an element is among those sent.                                   *)
Flat(t, idx) == Total([j \in 1 .. Rank(t) |-> idx[j] * Span(t)[j + 1]])

(* PyTorch makes only views that lie inside their storage.                 *)
Views ==
  UNION {{t \in [shape : [1 .. n -> Dims], strides : [1 .. n -> Strides],
                 offset : Offsets] :
            \A idx \in Indices(t) : Address(t, idx) < Cells} : n \in 0 .. MaxRank}

CodecInit ==
  /\ tensor \in Views
  /\ at = "start" /\ dim = 0 /\ exp = 1 /\ raw = <<>> /\ touched = {} /\ out = <<>>

------------------------------------------------------------------------------
(* tensor_to_proto *)

empty_tensor ==
  /\ at = "start" /\ Numel(tensor) = 0
  /\ at' = "sent"
  /\ UNCHANGED <<tensor, dim, exp, raw, touched, out>>

check_contiguity ==
  /\ at = "start" /\ Numel(tensor) # 0
  /\ at' = "check" /\ dim' = Rank(tensor) /\ exp' = 1
  /\ UNCHANGED <<tensor, raw, touched, out>>

Bug_ExpectOne ==
  /\ at = "check" /\ dim > 0 /\ tensor.strides[dim] = exp
  /\ exp' = 1 /\ dim' = dim - 1
  /\ UNCHANGED <<tensor, at, raw, touched, out>>
next_dimension ==
  /\ at = "check" /\ dim > 0 /\ tensor.strides[dim] = exp
  /\ exp' = exp * tensor.shape[dim] /\ dim' = dim - 1
  /\ UNCHANGED <<tensor, at, raw, touched, out>>

not_contiguous ==
  /\ at = "check" /\ dim > 0 /\ tensor.strides[dim] # exp
  /\ at' = "strided"
  /\ UNCHANGED <<tensor, dim, exp, raw, touched, out>>

Bug_OneShort ==
  /\ at = "check" /\ dim = 0
  /\ raw' = [k \in 1 .. Numel(tensor) - 1 |-> tensor.offset + k - 1]
  /\ touched' = {raw'[k] : k \in DOMAIN raw'}
  /\ at' = "sent"
  /\ UNCHANGED <<tensor, dim, exp, out>>
read_contiguous ==
  /\ at = "check" /\ dim = 0
  /\ raw' = [k \in 1 .. Numel(tensor) |-> tensor.offset + k - 1]
  /\ touched' = {raw'[k] : k \in DOMAIN raw'}
  /\ at' = "sent"
  /\ UNCHANGED <<tensor, dim, exp, out>>

(* The last element of the buffer that numpy is given.                     *)
Bug_PastTheLast(t) == Total([j \in 1 .. Rank(t) |-> t.shape[j] * t.strides[j]])
max_off(t) == Total([j \in 1 .. Rank(t) |-> (t.shape[j] - 1) * t.strides[j]])

read_strided ==
  /\ at = "strided"
  /\ touched' = tensor.offset .. tensor.offset + max_off(tensor)
  /\ raw' = [k \in 1 .. Numel(tensor) |->
               Address(tensor, CHOOSE idx \in Indices(tensor) :
                                 Flat(tensor, idx) = k - 1)]
  /\ at' = "sent"
  /\ UNCHANGED <<tensor, dim, exp, out>>

------------------------------------------------------------------------------
(* proto_to_tensor_normal: the bytes, in the shape that was sent.          *)
proto_to_tensor_normal ==
  /\ at = "sent" /\ Len(raw) = Numel(tensor)
  /\ out' = [idx \in Indices(tensor) |-> raw[Flat(tensor, idx) + 1]]
  /\ at' = "done"
  /\ UNCHANGED <<tensor, dim, exp, raw, touched>>

CodecNext ==
  \/ empty_tensor \/ check_contiguity \/ next_dimension \/ not_contiguous
  \/ read_contiguous \/ read_strided \/ proto_to_tensor_normal

CodecSpec == CodecInit /\ [][CodecNext]_codecVars

------------------------------------------------------------------------------
(* The type invariant; as many elements are sent as the shape has, so that *)
(* reshape takes them.                                                     *)
CodecTypeOK ==
  /\ at \in {"start", "check", "strided", "sent", "done"}
  /\ dim \in 0 .. Rank(tensor) /\ exp \in Nat
  /\ touched \subseteq Nat
  /\ at \in {"sent", "done"} => Len(raw) = Numel(tensor)

(* The tensor that arrives has the elements of the one that was sent, each *)
(* at its index: for slices, transposes, expanded and empty tensors, and   *)
(* dimensions of size 1 with any stride.                                   *)
RoundTrip ==
  at = "done" => \A idx \in Indices(tensor) : out[idx] = Address(tensor, idx)

(* Nothing outside the storage is read, though the memory is read without  *)
(* any check of PyTorch's.                                                 *)
ReadsInside == touched \subseteq 0 .. Cells - 1
==============================================================================
