------------------------------- MODULE FatBinary -------------------------------
(***************************************************************************)
(* The client's reading of a fat binary (cpu-elf2.c): the walk over its    *)
(* sections, the decompression of a section of device code, as its loop    *)
(* goes over the input, and what is learnt of the kernels in it.           *)
(*                                                                         *)
(* The sizes of a nibble and of a byte, the least length of a match and    *)
(* the alignment are parameters: 16, 256, 4 and 8 in the code.  A byte of  *)
(* a cubin is what it says: the first is the magic number of an ELF, the   *)
(* others are a parameter by its ordinal (from 1), the size of them all,   *)
(* or nothing.  Headers have the size of the alignment.                    *)
(***************************************************************************)
EXTENDS Integers, Sequences

CONSTANTS
    Nibble,         \* number of values of half a byte that heads a match
    Byte,           \* number of values of a byte
    LeastMatch,     \* length of a match whose nibble is 0
    Align,          \* alignment of sections
    Layout,         \* of each kernel, its parameters: [offset, size, pointer]
    FatBinaries     \* what clients register: sequences of sections

ASSUME SizesAssumption ==
    /\ Nibble \in Nat \ {0, 1} /\ Byte \in Nat /\ Byte >= Nibble * Nibble
    /\ LeastMatch \in Nat \ {0} /\ Align \in Nat \ {0}

Magic == Byte - 1
SizeAttribute == Byte - 2
Kernels == DOMAIN Layout

(* A host_fun that nothing has set is whatever the storage of the list     *)
(* held, and may equal any function the program launches.                  *)
Unset == [api |-> "unset"]

Padding(n) == (-n) % Align
Zeros(n) == [i \in 1 .. n |-> 0]

Least(a, b) == IF a < b THEN a ELSE b

-------------------------------------------------------------------------------
(* What nvcc writes for bytes that stand as they are and the match behind  *)
(* them, and for those at the end, which have no match.                    *)

Lengthening(n) ==
    [j \in 1 .. n \div (Byte - 1) + 1 |->
        IF j <= n \div (Byte - 1) THEN Byte - 1 ELSE n % (Byte - 1)]
Long(n) == IF n < Nibble - 1 THEN <<>> ELSE Lengthening(n - (Nibble - 1))
Halves(high, low) == <<Least(high, Nibble - 1) * Nibble + Least(low, Nibble - 1)>>

Encoded(plains, distance, match) ==
    Halves(Len(plains), match - LeastMatch) \o Long(Len(plains)) \o plains
        \o <<distance % Byte, distance \div Byte>> \o Long(match - LeastMatch)

EncodedLast(plains) == Halves(Len(plains), 0) \o Long(Len(plains)) \o plains

(* A section is what is stored of a content in tokens: where they begin in *)
(* either, how many bytes stand as they are, how long the match is, if     *)
(* there is one, and how far behind it what it repeats.                    *)
Tokens(s) ==
    Seq([in : 0 .. Len(s.stored), out : 0 .. Len(s.content), plains : 0 .. Len(s.content),
         match : 0 .. Len(s.content), distance : 0 .. Byte * Byte - 1])
TokenIn(s, k) == IF k \in DOMAIN s.tokens THEN s.tokens[k].in ELSE Len(s.stored)
TokenOut(s, k) == IF k \in DOMAIN s.tokens THEN s.tokens[k].out ELSE Len(s.content)
Match(s, k) == TokenOut(s, k) + s.tokens[k].plains
Compressed(s) ==
    /\ s.tokens \in Tokens(s) /\ s.tokens # <<>>
    /\ TokenIn(s, 1) = 0 /\ TokenOut(s, 1) = 0
    /\ \A k \in DOMAIN s.tokens :
         LET t == s.tokens[k]
             plains == SubSeq(s.content, TokenOut(s, k) + 1, Match(s, k))
         IN  /\ TokenOut(s, k + 1) = Match(s, k) + t.match
             /\ SubSeq(s.stored, TokenIn(s, k) + 1, TokenIn(s, k + 1)) =
                  IF t.match = 0 THEN EncodedLast(plains)
                  ELSE Encoded(plains, t.distance, t.match)
             /\ t.match = 0 => k = Len(s.tokens)
             /\ t.match # 0 =>
                  /\ t.match >= LeastMatch /\ t.distance \in 1 .. Match(s, k)
                  /\ \A i \in Match(s, k) + 1 .. Match(s, k) + t.match :
                       s.content[i] = s.content[i - t.distance]

(* The parameters that entries of a kernel are about, in any order.        *)
Ordinals(kernel, bytes) == {bytes[i] : i \in 2 .. Len(bytes)} \cap DOMAIN Layout[kernel]
Sized(bytes) == \E i \in 2 .. Len(bytes) : bytes[i] = SizeAttribute

(* nvcc lists all parameters of a kernel, and their size.                  *)
IsSection(s) ==
    /\ s.kernel \in Kernels /\ s.compressed \in BOOLEAN
    /\ s.content \in Seq(0 .. Byte - 1) /\ s.stored \in Seq(0 .. Byte - 1)
    /\ IF s.compressed THEN Compressed(s) ELSE s.stored = s.content
    /\ s.kind = "elf" =>
         /\ s.content # <<>> /\ Sized(s.content)
         /\ Ordinals(s.kernel, s.content) = DOMAIN Layout[s.kernel]
IsFatBinary(f) ==
    /\ Len(f) \in Nat \ {0} /\ f = [n \in 1 .. Len(f) |-> f[n]]
    /\ \A n \in DOMAIN f : IsSection(f[n])

ASSUME FatBinariesAssumption == \A f \in FatBinaries : IsFatBinary(f)

-------------------------------------------------------------------------------
VARIABLES
    fat,            \* the fat binary being registered
    stage,          \* where the registration is
    pos,            \* input_pos in the fat binary
    input,          \* the compressed bytes of the section
    output,         \* what is decompressed of them
    outputSize,     \* decompressed_size of the section
    ipos,
    nclen,          \* next_nclen
    clen,           \* next_clen
    back,           \* back_offset
    text,           \* text_data
    kernel_infos

decompressVars == <<input, output, outputSize, ipos, nclen, clen, back>>
elfVars == <<fat, stage, pos, decompressVars, text, kernel_infos>>

In(i) == input[i + 1]

-------------------------------------------------------------------------------
(*  The walk over the sections  *)

Size(s) == Len(s.stored) + Padding(Len(s.stored))
Start[n \in 1 .. Len(fat) + 1] ==
    IF n = 1 THEN Align ELSE Start[n - 1] + Align + Size(fat[n - 1])
Starts == {Start[n] : n \in DOMAIN fat}
End == Start[Len(fat) + 1]

(* The section the walk is in: th.                                         *)
th == fat[CHOOSE n \in DOMAIN fat : Start[n] <= pos /\ pos < Start[n] + Align + Size(fat[n])]

Continue(p) == pos' = p /\ stage' = IF p < End THEN "section" ELSE "read"

(* The size that is compared with that of a header is the caller's local   *)
(* fatbin_size, which nothing has set.                                     *)
get_text_header_fails ==
    /\ stage = "section"
    /\ stage' = "failed"
    /\ UNCHANGED <<fat, pos, decompressVars, text, kernel_infos>>

skip_section ==
    /\ stage = "section" /\ th.kind # "elf"
    /\ Continue(pos + Align + Size(th))
    /\ UNCHANGED <<fat, decompressVars, text, kernel_infos>>

take_section ==
    /\ stage = "section" /\ th.kind = "elf" /\ ~th.compressed
    /\ text' = th.stored \o Zeros(Padding(Len(th.stored)))
    /\ pos' = pos + Align + Size(th)
    /\ stage' = "text"
    /\ UNCHANGED <<fat, decompressVars, kernel_infos>>

decompress ==
    /\ stage = "section" /\ th.kind = "elf" /\ th.compressed
    /\ pos' = pos + Align
    /\ input' = th.stored /\ outputSize' = Len(th.content)
    /\ output' = <<>> /\ ipos' = 0 /\ nclen' = 0 /\ clen' = 0 /\ back' = 0
    /\ stage' = "token"
    /\ UNCHANGED <<fat, text, kernel_infos>>

-------------------------------------------------------------------------------
(*  The loop of decompress  *)

Looping == UNCHANGED <<fat, pos, input, outputSize, text, kernel_infos>>

token ==
    /\ stage = "token" /\ ipos < Len(input)
    /\ nclen' = In(ipos) \div Nibble
    /\ clen' = LeastMatch + (In(ipos) % Nibble)
    /\ stage' = IF nclen' = Nibble - 1 THEN "plain_length" ELSE "plain"
    /\ Looping /\ UNCHANGED <<output, ipos, back>>

input_ends ==
    /\ stage = "token" /\ ipos >= Len(input)
    /\ stage' = "returned"
    /\ Looping /\ UNCHANGED <<output, ipos, nclen, clen, back>>

plain_length ==
    /\ stage = "plain_length"
    /\ ipos' = ipos + 1
    /\ nclen' = nclen + In(ipos + 1)
    /\ stage' = IF In(ipos + 1) = Byte - 1 THEN "plain_length" ELSE "plain"
    /\ Looping /\ UNCHANGED <<output, clen, back>>

plain ==
    /\ stage = "plain"
    /\ output' = output \o SubSeq(input, ipos + 2, ipos + 1 + nclen)
    /\ ipos' = ipos + 1 + nclen
    /\ stage' = IF ipos' >= Len(input) \/ Len(output') >= outputSize THEN "returned" ELSE "offset"
    /\ Looping /\ UNCHANGED <<nclen, clen, back>>

offset ==
    /\ stage = "offset"
    /\ back' = In(ipos) + In(ipos + 1) * Byte
    /\ ipos' = ipos + 2
    /\ stage' = IF clen = Nibble - 1 + LeastMatch THEN "match_length" ELSE "match"
    /\ Looping /\ UNCHANGED <<output, nclen, clen>>

(* Mutant: the length ends with the first byte, even a full one.           *)
Bug_OneLengthByte ==
    /\ stage = "match_length"
    /\ clen' = clen + In(ipos)
    /\ ipos' = ipos + 1
    /\ stage' = "match"
    /\ Looping /\ UNCHANGED <<output, nclen, back>>

match_length ==
    /\ stage = "match_length"
    /\ clen' = clen + In(ipos)
    /\ ipos' = ipos + 1
    /\ stage' = IF In(ipos) = Byte - 1 THEN "match_length" ELSE "match"
    /\ Looping /\ UNCHANGED <<output, nclen, back>>

(* Mutant: a match longer than its distance is taken at once, from bytes   *)
(* that are not there yet.                                                 *)
Bug_NoOverlap ==
    /\ stage = "match"
    /\ output' = output \o [i \in 1 .. clen |-> IF i <= back THEN output[Len(output) - back + i] ELSE 0]
    /\ stage' = "token"
    /\ Looping /\ UNCHANGED <<ipos, nclen, clen, back>>

(* A match may be longer than its distance: from there on it repeats what  *)
(* it has just written.                                                    *)
match ==
    /\ stage = "match"
    /\ LET matched[i \in 1 .. clen] ==
             IF i <= back THEN output[Len(output) - back + i] ELSE matched[i - back]
       IN  output' = output \o matched
    /\ stage' = "token"
    /\ Looping /\ UNCHANGED <<ipos, nclen, clen, back>>

-------------------------------------------------------------------------------
(* Where a section of device code ends.  The zeros meant for the padding   *)
(* behind the output are written over its beginning.                       *)

decompressed ==
    /\ stage = "returned"
    /\ stage' = IF Len(output) = outputSize THEN "text" ELSE "failed"
    /\ LET last == pos + Len(input)
       IN  pos' = last + Padding(last)
    /\ text' = Zeros(Padding(outputSize)) \o SubSeq(output, Padding(outputSize) + 1, outputSize)
    /\ UNCHANGED <<fat, decompressVars, kernel_infos>>

(* utils_search_info                                                       *)
Known(infos, name) == \E i \in DOMAIN infos : infos[i].name = name

(* Mutant: the last parameter listed, not the last one there is, tells     *)
(* how many there are.                                                     *)
Bug_LastListedCounts(kernel, bytes) ==
    [name |-> kernel, host_fun |-> Unset,
     params |-> [o \in 1 .. CHOOSE o \in Ordinals(kernel, bytes) :
                              \A i \in 2 .. Len(bytes) : bytes[i] \in Ordinals(kernel, bytes) =>
                                \E j \in i .. Len(bytes) : bytes[j] = o
                   |-> Layout[kernel][o]],
     sized |-> Sized(bytes)]

get_parm_for_kernel(kernel, bytes) ==
    [name |-> kernel, host_fun |-> Unset,
     params |-> [o \in Ordinals(kernel, bytes) |-> Layout[kernel][o]],
     sized |-> Sized(bytes)]

Learnt(infos, kernel, bytes) ==
    IF Known(infos, kernel) THEN infos ELSE Append(infos, get_parm_for_kernel(kernel, bytes))

(* The cubin whose text is parsed ends where the walk has come to.         *)
Parsed == fat[CHOOSE n \in DOMAIN fat : Start[n + 1] = pos]

elf2_parameter_info ==
    /\ stage = "text" /\ text[1] = Magic
    /\ kernel_infos' = Learnt(kernel_infos, Parsed.kernel, text)
    /\ Continue(pos)
    /\ UNCHANGED <<fat, decompressVars, text>>

check_elf_fails ==
    /\ stage = "text" /\ text[1] # Magic
    /\ stage' = "failed"
    /\ UNCHANGED <<fat, pos, decompressVars, text, kernel_infos>>

elf2_get_fatbin_info ==
    \/ get_text_header_fails \/ skip_section \/ take_section \/ decompress
    \/ token \/ input_ends \/ plain_length \/ plain \/ offset \/ match_length \/ match
    \/ decompressed \/ elf2_parameter_info \/ check_elf_fails
===============================================================================
