--------------------------- MODULE MCKernelLaunch ---------------------------
(* Two kernels: a pointer and, behind a gap, a number; and two numbers and *)
(* a pointer one behind the other, so that the bytes written back for a    *)
(* number are also those of the next number, or of the pointer.  Their     *)
(* cubins are compressed in every way that has at most one match, of any   *)
(* distance and length the bytes allow.                                    *)
EXTENDS KernelLaunch, TLC

Pointer(o) == [offset |-> o, size |-> 2, pointer |-> TRUE]
Number(o) == [offset |-> o, size |-> 1, pointer |-> FALSE]
MCLayout == "k" :> <<Pointer(0), Number(3)>> @@ "l" :> <<Number(0), Number(1), Pointer(2)>>

(* The two blocks have changed places.                                     *)
MCRestored == 3 :> [cuda |-> 6, size |-> 2] @@ 6 :> [cuda |-> 3, size |-> 2]

Token(in, out, plains, length, distance) ==
    [in |-> in, out |-> out, plains |-> plains, match |-> length, distance |-> distance]
Last(in, out, plains) == Token(in, out, plains, 0, 0)
Repeats(c, p, d, m) == \A i \in p + 1 .. p + m : c[i] = c[i - d]
WithMatch(c, p, d, m) ==
    LET stored == Encoded(SubSeq(c, 1, p), d, m)
        first == Token(0, 0, p, m, d)
    IN  IF p + m = Len(c) THEN [stored |-> stored, tokens |-> <<first>>]
        ELSE [stored |-> stored \o EncodedLast(SubSeq(c, p + m + 1, Len(c))),
              tokens |-> <<first, Last(Len(stored), p + m, Len(c) - p - m)>>]
Compressions(c) ==
    {[stored |-> EncodedLast(c), tokens |-> <<Last(0, 0, Len(c))>>]} \cup
    UNION {UNION {{WithMatch(c, p, d, m) :
                      m \in {m \in LeastMatch .. Len(c) - p : Repeats(c, p, d, m)}}
                  : d \in 1 .. p}
           : p \in 1 .. Len(c) - 1}

Cubins(k) ==
    IF k = "k" THEN {<<5, 2, 1, 4>>, <<5, 2, 0, 0, 0, 0, 0, 0, 0, 0, 1, 4>>,
                     <<5, 2, 0, 0, 2, 0, 0, 2, 0, 0, 1, 4, 0>>}
    ELSE {<<5, 3, 1, 2, 4>>, <<5, 1, 2, 3, 4, 0, 1, 2, 3, 4, 0, 1>>,
          <<5, 4, 3, 2, 1, 1, 5, 4, 3, 2, 1, 1>>}

Section(k, kind, compressed, c, stored, tokens) ==
    [kind |-> kind, kernel |-> k, compressed |-> compressed, content |-> c,
     stored |-> stored, tokens |-> tokens]
CompressedCubins(k) ==
    UNION {{Section(k, "elf", TRUE, c, b.stored, b.tokens) : b \in Compressions(c)} : c \in Cubins(k)}
PlainCubins(k) == {Section(k, "elf", FALSE, c, c, <<>>) : c \in Cubins(k)}
PTX(k) == Section(k, "ptx", FALSE, <<1, 0, 0>>, <<1, 0, 0>>, <<>>)

MCFatBinaries ==
    {<<s, PTX("k")>> : s \in CompressedCubins("k") \cup PlainCubins("k")}
    \cup {<<PTX("k"), s>> : s \in CompressedCubins("l")}
    \cup {<<s, t>> : s \in CompressedCubins("l"), t \in PlainCubins("k") \cup PlainCubins("l")}
=============================================================================
