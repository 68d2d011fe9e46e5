---------------------------- MODULE StreamsProofs ----------------------------
(***************************************************************************)
(* Proofs about Streams for any sizes of files, chunks, blocks and buffers:*)
(* a file reads back complete, and no read of it throws.                   *)
(***************************************************************************)
EXTENDS Streams, WellFoundedInduction, TLAPS

(* Whether a read of lines never returns 0 before the end, which           *)
(* BufferedReader would take for it (run streams_bzip).  Nothing in the    *)
(* code keeps its users from the other stacks.                             *)
InOneGo ==
    Reader = "lines" =>
        Codec \in {"none", "deflate"} \/ (Codec = "zstd" /\ Cipher = "none")
LinesInOneGo ==
    \A s \in Stacks : s[3] = "lines" =>
        s[2] \in {"none", "deflate"} \/ (s[2] = "zstd" /\ s[1] = "none")

-----------------------------------------------------------------------------
(* The inductive invariant.                                                *)

(* What can be decompressed from the first n units never gets less.        *)
Upto(s, n) == IF n = 0 THEN 0 ELSE s[n]
Rising(s) == \A i \in 1..Len(s) : Upto(s, i - 1) <= Upto(s, i)

(* zstd gets something new out of each full buffer, as a block fits in it. *)
Windowed(s) ==
    \A i \in 0..Len(s) : i + ZStdInSize <= Len(s) =>
          Upto(s, i) < Upto(s, i + ZStdInSize)
BlocksEnd(s) == Len(s) > 0 => Upto(s, Len(s) - 1) < Upto(s, Len(s))

Closed == {"reading", "eof", "error"}
PackedInv ==
    /\ packed \in Seq(Nat) /\ Len(packed) <= MaxPacked
    /\ Rising(packed) /\ Told <= plain /\ Plausible(packed)
    /\ Codec = "none" => Len(packed) = plain /\ \A i \in 1..plain : packed[i] = i
    /\ Codec = "zstd" => Windowed(packed)
    /\ Codec = "zstd" /\ status = "writing" => BlocksEnd(packed)
    /\ status \in Closed => Told = plain /\ (Codec # "none" => Len(packed) > 0)
    /\ status \in Closed /\ Reader = "lines" => plain # 1

(* What has got through the cipher: it keeps back a block until it knows   *)
(* that no more will come.                                                 *)
Delivered(units, end, n) ==
    /\ Cipher = "none" => file = Len(packed) /\ n = units
    /\ Cipher = "blowfish" =>
           file = Len(packed) + 1 /\ n = IF units = 0 THEN 0 ELSE units - 1
    /\ Cipher = "aes" =>
           /\ file \in {Len(packed) + 1, Len(packed) + 2} /\ file % 2 = 0
           /\ units % 2 = 0
           /\ end => units = file
           /\ n = IF end THEN Len(packed) ELSE IF units = 0 THEN 0 ELSE units - 2
FileInv ==
    /\ status \notin Closed => file \in 0..Len(packed)
    /\ status \notin Closed =>
           fileRead = 0 /\ finished = FALSE /\ fed = 0 /\ consumed = 0 /\ got = 0
    /\ status \in Closed => file \in Nat /\ Delivered(fileRead, finished, fed)
    /\ fileRead \in 0..file /\ finished \in BOOLEAN

(* What has got through the decompressor: what is consumed and not yet got *)
(* is still to come.                                                       *)
GotInv ==
    /\ fed \in 0..Len(packed) /\ consumed \in 0..fed
    /\ got \in 0..Upto(packed, fed)
    /\ Codec = "none" => got = fed /\ consumed = fed
    /\ status \in Closed /\ Codec # "none" /\ consumed = Len(packed) => got = plain
    /\ Codec \in {"deflate", "zstd"} /\ consumed < fed => got < Upto(packed, fed)

TypeInv ==
    /\ stack \in Stacks /\ plain \in 0..MaxPlain
    /\ status \in {"writing", "aborted", "reading", "eof", "error"}
IInv ==
    /\ TypeInv /\ PackedInv /\ FileInv /\ GotInv
    /\ InOneGo => Complete
    /\ NoException

-----------------------------------------------------------------------------
(* Sequences that rise.                                                    *)

(* A set of natural numbers has a smallest one. *)
LEMMA Smallest ==
    ASSUME NEW T, T \subseteq Nat, T # {}
    PROVE  \E n \in T : \A m \in T : n <= m
<1> DEFINE R == {ss \in Nat \X Nat : ss[1] < ss[2]}
<1>1. IsWellFoundedOn(R, Nat)
  BY NatLessThanWellFounded, Zenon DEF OpToRel
<1>2. PICK n \in T : \A m \in T : ~(<<m, n>> \in R)
  <2> HIDE DEF R
  <2>1. QED
    BY <1>1, WFMin
<1>3. \A m \in T : ~(m < n)
  BY <1>2
<1>4. QED
  BY <1>3

(* From one to the next is enough. *)
LEMMA RisingFar ==
    ASSUME NEW s \in Seq(Nat), Rising(s), NEW i \in 0..Len(s),
           NEW j \in 0..Len(s), i <= j
    PROVE  Upto(s, i) <= Upto(s, j)
<1> DEFINE T == {k \in i..Len(s) : ~(Upto(s, i) <= Upto(s, k))}
<1>1. \A k \in 0..Len(s) : Upto(s, k) \in Nat
  BY DEF Upto
<1>2. ASSUME T # {} PROVE FALSE
  <2>1. T \subseteq Nat
    OBVIOUS
  <2>2. PICK k \in T : \A m \in T : k <= m
    <3> HIDE DEF T
    <3>1. QED
      BY <1>2, <2>1, Smallest
  <2>3. k \in i..Len(s) /\ k # i
    BY <1>1, <2>2
  <2>4. k - 1 \notin T /\ k - 1 \in i..Len(s) /\ k \in 1..Len(s)
    BY <2>1, <2>2, <2>3
  <2>5. Upto(s, k - 1) <= Upto(s, k)
    BY <2>4 DEF Rising
  <2>6. Upto(s, i) <= Upto(s, k - 1)
    BY <2>4
  <2>7. QED
    BY <1>1, <2>2, <2>3, <2>4, <2>5, <2>6
<1>3. QED
  BY <1>2

(* What a compressor gives out of "all" plain units after s. *)
Emission(s, e, all) ==
    /\ e \in Seq(Nat) /\ \A k \in 1..Len(e) : Upto(s, Len(s)) <= e[k] /\ e[k] <= all
    /\ \A k \in 2..Len(e) : e[k - 1] <= e[k]

(* Such an emission keeps the whole sequence rising. *)
LEMMA Appended ==
    ASSUME NEW s \in Seq(Nat), Rising(s), NEW all \in Nat, Upto(s,
           Len(s)) <= all,
           NEW e, Emission(s, e, all)
    PROVE  /\ s \o e \in Seq(Nat) /\ Len(s \o e) = Len(s) + Len(e)
           /\ Rising(s \o e)
           /\ \A i \in 0..Len(s) : Upto(s \o e, i) = Upto(s, i)
           /\ \A k \in 1..Len(e) : (s \o e)[Len(s) + k] = e[k]
           /\ \A k \in 1..Len(e) : Upto(s \o e, Len(s) + k) = e[k]
           /\ Upto(s \o e, Len(s \o e)) <= all
<1> DEFINE t == s \o e
<1>1. /\ e \in Seq(Nat) /\ t \in Seq(Nat) /\ Len(t) = Len(s) + Len(e)
      /\ Len(e) \in Nat /\ Len(s) \in Nat
  BY DEF Emission
<1>2. \A i \in 1..Len(s) : t[i] = s[i]
  BY <1>1
<1>3. \A k \in 1..Len(e) : t[Len(s) + k] = e[k]
  BY <1>1
<1>4. \A i \in 0..Len(s) : Upto(t, i) = Upto(s, i)
  BY <1>2 DEF Upto
<1>5. \A k \in 1..Len(e) : Upto(t, Len(s) + k) = e[k]
  BY <1>1, <1>3 DEF Upto
<1> HIDE DEF t
<1>6. ASSUME NEW i \in 1..Len(t) PROVE Upto(t, i - 1) <= Upto(t, i)
  <2>1. CASE i <= Len(s)
    <3>1. i \in 1..Len(s) /\ i \in 0..Len(s) /\ i - 1 \in 0..Len(s)
      BY <1>1, <2>1
    <3>2. Upto(t, i) = Upto(s, i) /\ Upto(t, i - 1) = Upto(s, i - 1)
      BY <1>4, <3>1
    <3>3. QED
      BY <3>1, <3>2 DEF Rising
  <2>2. CASE i > Len(s)
    <3> DEFINE k == i - Len(s)
    <3>0. k \in 1..Len(e) /\ Len(s) + k = i
      BY <1>1, <2>2
    <3>1. Upto(t, i) = e[k]
      BY <1>5, <3>0
    <3>2. CASE k = 1
      <4>1. i - 1 = Len(s) /\ Len(s) \in 0..Len(s)
        BY <1>1, <3>0, <3>2
      <4>2. Upto(t, i - 1) = Upto(s, Len(s))
        BY <1>4, <4>1
      <4>3. QED
        BY <3>0, <3>1, <4>2 DEF Emission
    <3>3. CASE k # 1
      <4>1. k - 1 \in 1..Len(e) /\ k \in 2..Len(e) /\ Len(s) + (k - 1) = i - 1
        BY <1>1, <3>0, <3>3
      <4>2. Upto(t, Len(s) + (k - 1)) = e[k - 1]
        BY <1>5, <4>1
      <4>3. QED
        BY <3>1, <4>1, <4>2 DEF Emission
    <3>4. QED
      BY <3>2, <3>3
  <2>3. QED
    BY <1>1, <2>1, <2>2
<1>7. Upto(t, Len(t)) <= all
  <2>1. CASE Len(e) = 0
    <3>1. Len(t) = Len(s) /\ Len(s) \in 0..Len(s)
      BY <1>1, <2>1
    <3>2. QED
      BY <1>4, <3>1
  <2>2. CASE Len(e) > 0
    <3>1. Len(e) \in 1..Len(e) /\ Len(t) = Len(s) + Len(e)
      BY <1>1, <2>2
    <3>2. Upto(t, Len(t)) = e[Len(e)]
      BY <1>5, <3>1
    <3>3. QED
      BY <3>1, <3>2 DEF Emission
  <2>3. QED
    BY <1>1, <2>1, <2>2
<1>8. QED
  BY <1>1, <1>3, <1>4, <1>5, <1>6, <1>7 DEF Rising, t

-----------------------------------------------------------------------------
(* What the compressors give out.                                          *)
LEMMA ToldIsLast ==
    ASSUME packed \in Seq(Nat)
    PROVE  Told = Upto(packed, Len(packed)) /\ Told \in Nat /\ Len(packed) \in Nat
<1>1. packed = <<>> <=> Len(packed) = 0
  OBVIOUS
<1>2. QED
  BY <1>1 DEF Told, Upto

(* Functions on 1..n are sequences. *)
LEMMA IsSeq ==
    ASSUME NEW n \in Nat, NEW S, NEW s \in [1..n -> S]
    PROVE  s \in Seq(S) /\ Len(s) = n
OBVIOUS

(* Deflate and LZMA: anything between nothing and all. *)
LEMMA StreamedEmission ==
    ASSUME packed \in Seq(Nat), NEW all \in Nat, NEW s \in Streamed(all)
    PROVE  Emission(packed, s, all)
<1>1. Told = Upto(packed, Len(packed)) /\ Told \in Nat
  BY ToldIsLast
<1>2. PICK n \in 0..MaxStreamed :
          s \in [1..n -> Told..all] /\ \A i \in 2..n : s[i - 1] <= s[i]
  BY DEF Streamed
<1>3. n \in Nat /\ s \in [1..n -> Nat] /\ \A k \in 1..n : s[k] \in Told..all
  BY <1>1, <1>2, SizesAssumption
<1>4. s \in Seq(Nat) /\ Len(s) = n
  BY <1>3, IsSeq
<1>5. QED
  BY <1>1, <1>2, <1>3, <1>4 DEF Emission

(* A block adds what it holds with its last unit. *)
BlockAfter(s, e, all) ==
    /\ e \in Seq(Nat) /\ Len(e) \in 1..MaxBlock
    /\ \A k \in 1..Len(e) : e[k] = IF k = Len(e) THEN all ELSE Upto(s, Len(s))

(* bzip2 and zstd: nothing, or a whole block. *)
LEMMA BlocksAfter ==
    ASSUME packed \in Seq(Nat), NEW all \in Nat, Told <= all,
           NEW s \in Blocks(all)
    PROVE  /\ all = Told => s = <<>>
           /\ all # Told => BlockAfter(packed, s, all)
           /\ Emission(packed, s, all)
<1>1. Told = Upto(packed, Len(packed)) /\ Told \in Nat
  BY ToldIsLast
<1>2. CASE all = Told
  BY <1>1, <1>2 DEF Blocks, Emission
<1>3. CASE all # Told
  <2>1. PICK n \in 1..Least(MaxBlock, all - Told + 1) :
            s = [i \in 1..n |-> IF i = n THEN all ELSE Told]
    BY <1>3 DEF Blocks
  <2>2. n \in 1..MaxBlock
    BY <1>1, <2>1, SizesAssumption DEF Least
  <2>3. n \in Nat /\ s \in [1..n -> Nat]
    BY <1>1, <2>1, <2>2
  <2>4. s \in Seq(Nat) /\ Len(s) = n
    BY <2>3, IsSeq
  <2>5. BlockAfter(packed, s, all)
    BY <1>1, <2>1, <2>2, <2>4 DEF BlockAfter
  <2>6. Emission(packed, s, all)
    BY <1>1, <2>1, <2>2, <2>4 DEF Emission
  <2>7. QED
    BY <1>3, <2>5, <2>6
<1>4. QED
  BY <1>2, <1>3

(* Giving out nothing is always possible. *)
LEMMA NoEmission ==
    ASSUME NEW all
    PROVE  Emission(packed, <<>>, all)
BY DEF Emission

(* The names that a stack is made of. *)
LEMMA CodecNames ==
    ASSUME stack \in Stacks
    PROVE  /\ Cipher \in {"none", "blowfish", "aes"}
           /\ Codec \in {"none", "deflate", "bzip", "lzma", "zstd"}
           /\ Reader \in {"copy", "lines", "inflate"}
           /\ Reader = "inflate" => Cipher = "none" /\ Codec # "none"
BY StacksAssumption DEF Cipher, Codec, Reader

(* What write() may add, for each compressor. *)
LEMMA WriteEmission ==
    ASSUME stack \in Stacks, packed \in Seq(Nat), NEW all \in Nat, Told <= all,
           NEW s \in Emitted(all)
    PROVE  /\ Emission(packed, s, all)
           /\ Codec = "none" =>
                  Len(s) = all - Told /\ \A k \in 1..(all - Told) : s[k] = Told + k
           /\ Codec = "zstd" => s = <<>> \/ (BlockAfter(packed, s, all) /\ all # Told)
<1>1. Told = Upto(packed, Len(packed)) /\ Told \in Nat
  BY ToldIsLast
<1>2. CASE Codec = "none"
  <2>1. s = [i \in 1..(all - Told) |-> Told + i]
    BY <1>2 DEF Emitted
  <2>2. all - Told \in Nat /\ s \in [1..(all - Told) -> Nat]
    BY <1>1, <2>1
  <2>3. s \in Seq(Nat) /\ Len(s) = all - Told
    BY <2>2, IsSeq
  <2>4. \A k \in 1..(all - Told) : s[k] = Told + k
    BY <2>1
  <2>5. QED
    BY <1>1, <1>2, <2>2, <2>3, <2>4 DEF Emission
<1>3. CASE Codec \in {"deflate", "lzma"}
  <2>1. s \in Streamed(all)
    BY <1>3 DEF Emitted
  <2>2. QED
    BY <1>3, <2>1, StreamedEmission
<1>4. CASE Codec \in {"bzip", "zstd"}
  <2>1. s = <<>> \/ s \in Blocks(all)
    BY <1>4 DEF Emitted
  <2>2. CASE s = <<>>
    BY <1>4, <2>2, NoEmission
  <2>3. CASE s \in Blocks(all)
    <3>1. /\ all = Told => s = <<>>
          /\ all # Told => BlockAfter(packed, s, all)
          /\ Emission(packed, s, all)
      BY <2>3, BlocksAfter
    <3>2. QED
      BY <1>4, <3>1
  <2>4. QED
    BY <2>1, <2>2, <2>3
<1>5. QED
  BY <1>2, <1>3, <1>4, CodecNames

(* One more unit with all that was written. *)
LEMMA EmissionEnds ==
    ASSUME packed \in Seq(Nat), NEW all \in Nat, Told <= all, NEW s,
           Emission(packed, s, all)
    PROVE  LET e == Append(s, all)
           IN  Emission(packed, e, all) /\ Len(e) > 0 /\ e[Len(e)] = all
<1> DEFINE e == Append(s, all)
<1>1. s \in Seq(Nat) /\ e \in Seq(Nat) /\ Len(e) = Len(s) + 1 /\ Len(s) \in Nat
  BY DEF Emission
<1>2. \A k \in 1..Len(s) : e[k] = s[k]
  BY <1>1
<1>3. e[Len(e)] = all
  BY <1>1
<1>4. Told = Upto(packed, Len(packed))
  BY ToldIsLast
<1> HIDE DEF e
<1>5. \A k \in 1..Len(e) : Upto(packed, Len(packed)) <= e[k] /\ e[k] <= all
  <2>1. TAKE k \in 1..Len(e)
  <2>2. CASE k = Len(e)
    BY <1>3, <1>4, <2>2
  <2>3. CASE k # Len(e)
    <3>1. k \in 1..Len(s) /\ e[k] = s[k]
      BY <1>1, <1>2, <2>3
    <3>2. QED
      BY <3>1 DEF Emission
  <2>4. QED
    BY <2>2, <2>3
<1>6. \A k \in 2..Len(e) : e[k - 1] <= e[k]
  <2>1. TAKE k \in 2..Len(e)
  <2>2. k - 1 \in 1..Len(s) /\ e[k - 1] = s[k - 1] /\ s[k - 1] <= all
    BY <1>1, <1>2 DEF Emission
  <2>3. CASE k = Len(e)
    BY <1>3, <2>2, <2>3
  <2>4. CASE k # Len(e)
    <3>1. k \in 2..Len(s) /\ k \in 1..Len(s)
      BY <1>1, <2>4
    <3>2. e[k] = s[k]
      BY <1>2, <3>1
    <3>3. QED
      BY <2>2, <3>1, <3>2 DEF Emission
  <2>5. QED
    BY <2>3, <2>4
<1>7. QED
  BY <1>1, <1>3, <1>5, <1>6 DEF Emission, e

(* What finish() adds: the last unit holds all that was written. *)
LEMMA EndEmission ==
    ASSUME TypeInv, PackedInv, NEW s \in Ended
    PROVE  /\ Emission(packed, s, plain)
           /\ Codec # "none" => Len(s) > 0 \/ (Told = plain /\ Len(packed) > 0)
           /\ Len(s) > 0 => s[Len(s)] = plain
           /\ Codec = "none" => s = <<>>
           /\ Codec = "zstd" => IF Told = plain THEN s = <<plain>>
                                ELSE BlockAfter(packed, s, plain)
<1>1. packed \in Seq(Nat) /\ plain \in Nat /\ Told <= plain
  BY SizesAssumption DEF TypeInv, PackedInv
<1>2. Told = Upto(packed, Len(packed)) /\ Told \in Nat
  BY <1>1, ToldIsLast
<1>3. CASE Codec = "none"
  <2>1. s = <<>>
    BY <1>3 DEF Ended
  <2>2. QED
    BY <1>3, <2>1 DEF Emission
<1>4. CASE Codec = "deflate"
  <2>1. PICK e \in Streamed(plain) : s = Append(e, plain)
    BY <1>4 DEF Ended
  <2>2. Emission(packed, e, plain)
    BY <1>1, <2>1, StreamedEmission
  <2>3. Emission(packed, s, plain) /\ Len(s) > 0 /\ s[Len(s)] = plain
    BY <1>1, <2>1, <2>2, EmissionEnds
  <2>4. QED
    BY <1>4, <2>3
<1>5. CASE Codec = "lzma"
  <2>1. PICK e \in Streamed(plain) : s = e \o <<plain, plain>>
    BY <1>5 DEF Ended
  <2>2. Emission(packed, e, plain)
    BY <1>1, <2>1, StreamedEmission
  <2>3. Emission(packed, Append(e, plain), plain)
    BY <1>1, <2>2, EmissionEnds
  <2>4. s = Append(Append(e, plain), plain)
    BY <1>1, <2>1, <2>2 DEF Emission
  <2>5. Emission(packed, s, plain) /\ Len(s) > 0 /\ s[Len(s)] = plain
    BY <1>1, <2>3, <2>4, EmissionEnds
  <2>6. QED
    BY <1>5, <2>5
<1>6. CASE Codec = "bzip"
  <2>1. PICK e \in Blocks(plain) : s = Append(e, plain)
    BY <1>6 DEF Ended
  <2>2. Emission(packed, e, plain)
    BY <1>1, <2>1, BlocksAfter
  <2>3. Emission(packed, s, plain) /\ Len(s) > 0 /\ s[Len(s)] = plain
    BY <1>1, <2>1, <2>2, EmissionEnds
  <2>4. QED
    BY <1>6, <2>3
<1>7. CASE Codec = "zstd"
  <2>1. CASE Told = plain
    <3>1. s = <<plain>>
      BY <1>7, <2>1 DEF Ended
    <3>2. Emission(packed, s, plain) /\ Len(s) > 0 /\ s[Len(s)] = plain
      <4>1. s = Append(<<>>, plain)
        BY <3>1
      <4>2. QED
        BY <1>1, <4>1, NoEmission, EmissionEnds
    <3>3. QED
      BY <1>7, <2>1, <3>1, <3>2
  <2>2. CASE Told # plain
    <3>1. s \in Blocks(plain)
      BY <1>7, <2>2 DEF Ended
    <3>2. BlockAfter(packed, s, plain) /\ Emission(packed, s, plain)
      BY <1>1, <2>2, <3>1, BlocksAfter
    <3>3. Len(s) > 0 /\ s[Len(s)] = plain
      BY <3>2, SizesAssumption DEF BlockAfter
    <3>4. QED
      BY <1>7, <2>2, <3>2, <3>3
  <2>3. QED
    BY <2>1, <2>2
<1>8. QED
  BY <1>3, <1>4, <1>5, <1>6, <1>7, CodecNames DEF TypeInv

-----------------------------------------------------------------------------
(* Writing.                                                                *)
LEMMA LessThanABuffer ==
    ASSUME NEW s \in Seq(Nat), Rising(s), Windowed(s), BlocksEnd(s),
           NEW all \in Nat,
           Upto(s, Len(s)) <= all, NEW e, Emission(s, e, all), Len(e) < ZStdInSize
    PROVE  Windowed(s \o e)
<1> DEFINE t == s \o e
<1>1. /\ t \in Seq(Nat) /\ Len(t) = Len(s) + Len(e) /\ Len(s) \in Nat
      /\ Len(e) \in Nat
      /\ \A i \in 0..Len(s) : Upto(t, i) = Upto(s, i)
      /\ \A k \in 1..Len(e) : Upto(t, Len(s) + k) = e[k]
  BY Appended DEF Emission
<1> HIDE DEF t
<1> SUFFICES ASSUME NEW i \in 0..Len(t), i + ZStdInSize <= Len(t)
             PROVE  Upto(t, i) < Upto(t, i + ZStdInSize)
  BY DEF Windowed, t
<1>2. ZStdInSize \in Nat /\ ZStdInSize > 0
  BY SizesAssumption
<1>3. CASE i + ZStdInSize <= Len(s)
  <2>1. i \in 0..Len(s) /\ i + ZStdInSize \in 0..Len(s)
    BY <1>1, <1>2, <1>3
  <2>2. /\ Upto(t, i) = Upto(s, i)
        /\ Upto(t, i + ZStdInSize) = Upto(s, i + ZStdInSize)
    BY <1>1, <2>1
  <2>3. Upto(s, i) < Upto(s, i + ZStdInSize)
    BY <1>3, <2>1 DEF Windowed
  <2>4. QED
    BY <2>2, <2>3
<1>4. CASE i + ZStdInSize > Len(s)
  <2> DEFINE k == i + ZStdInSize - Len(s)
  <2>1. k \in 1..Len(e) /\ Len(s) + k = i + ZStdInSize
    BY <1>1, <1>2, <1>4
  <2>2. /\ Len(s) > 0 /\ Len(s) - 1 \in 0..Len(s) /\ i \in 0..Len(s)
        /\ i <= Len(s) - 1
    <3>1. i \in Nat /\ Len(t) - ZStdInSize < Len(s)
      BY <1>1, <1>2
    <3>2. i < Len(s)
      BY <1>1, <1>2, <3>1
    <3>3. QED
      BY <1>1, <3>1, <3>2
  <2>3. Upto(s, i) <= Upto(s, Len(s) - 1)
    BY <2>2, RisingFar
  <2>4. Upto(s, Len(s) - 1) < Upto(s, Len(s))
    BY <2>2 DEF BlocksEnd
  <2>5. Upto(t, i + ZStdInSize) = e[k] /\ Upto(s, Len(s)) <= e[k]
    BY <1>1, <2>1 DEF Emission
  <2>6. Upto(t, i) = Upto(s, i)
    BY <1>1, <2>2
  <2>7. /\ e[k] \in Nat /\ Upto(s, i) \in Nat
        /\ Upto(s, Len(s) - 1) \in Nat /\ Upto(s, Len(s)) \in Nat
    <3>1. \A j \in 0..Len(s) : Upto(s, j) \in Nat
      BY DEF Upto
    <3>2. Len(s) \in 0..Len(s)
      BY <1>1
    <3>3. e[k] \in Nat
      BY <2>1 DEF Emission
    <3>4. QED
      BY <2>2, <3>1, <3>2, <3>3
  <2>8. QED
    BY <2>3, <2>4, <2>5, <2>6, <2>7
<1>5. QED
  BY <1>1, <1>2, <1>3, <1>4

(* After a block, the last unit is one that adds something. *)
LEMMA BlockEnds ==
    ASSUME NEW s \in Seq(Nat), Rising(s), NEW all \in Nat, Upto(s,
           Len(s)) < all,
           NEW e, Emission(s, e, all), BlockAfter(s, e, all)
    PROVE  BlocksEnd(s \o e)
<1> DEFINE t == s \o e
<1>1. /\ t \in Seq(Nat) /\ Len(t) = Len(s) + Len(e) /\ Len(s) \in Nat
      /\ \A i \in 0..Len(s) : Upto(t, i) = Upto(s, i)
      /\ \A k \in 1..Len(e) : Upto(t, Len(s) + k) = e[k]
  <2>1. Upto(s, Len(s)) \in Nat /\ Upto(s, Len(s)) <= all
    BY DEF Upto
  <2>2. QED
    BY <2>1, Appended
<1>2. Len(e) \in 1..MaxBlock /\ Len(e) \in Nat /\ Len(e) \in 1..Len(e)
  BY SizesAssumption DEF BlockAfter
<1> HIDE DEF t
<1>3. Upto(t, Len(t)) = all
  BY <1>1, <1>2 DEF BlockAfter
<1>4. Upto(t, Len(t) - 1) = Upto(s, Len(s))
  <2>1. CASE Len(e) <= 1
    <3>1. Len(t) - 1 = Len(s) /\ Len(s) \in 0..Len(s)
      BY <1>1, <1>2, <2>1
    <3>2. QED
      BY <1>1, <3>1
  <2>2. CASE Len(e) > 1
    <3>0. Len(e) \in Nat /\ Len(e) >= 1
      BY <1>2
    <3>1. /\ Len(e) - 1 \in 1..Len(e) /\ Len(s) + (Len(e) - 1) = Len(t) - 1
          /\ Len(e) - 1 # Len(e)
      <4>1. Len(t) - 1 = Len(s) + (Len(e) - 1)
        BY <1>1, <3>0
      <4>2. Len(e) - 1 # Len(e) /\ Len(e) - 1 >= 1 /\ Len(e) - 1 \in Nat
        BY <2>2, <3>0
      <4>3. QED
        BY <3>0, <4>1, <4>2
    <3>2. Upto(t, Len(s) + (Len(e) - 1)) = e[Len(e) - 1]
      BY <1>1, <3>1
    <3>3. QED
      BY <3>1, <3>2 DEF BlockAfter
  <2>3. QED
    BY <1>2, <2>1, <2>2
<1>5. QED
  BY <1>3, <1>4 DEF BlocksEnd, t

(* What write() and close() have in common. *)
LEMMA Grow ==
    ASSUME TypeInv, PackedInv, NEW all \in Nat, plain <= all, NEW s,
           Emission(packed, s, all),
           packed' = packed \o s
    PROVE  /\ packed' \in Seq(Nat) /\ Len(packed') \in Nat /\ Rising(packed')
           /\ Told' = Upto(packed', Len(packed')) /\ Told' <= all
           /\ Told' \in Nat
           /\ Len(packed') = Len(packed) + Len(s)
           /\ Len(s) > 0 => Told' = s[Len(s)]
           /\ Len(s) = 0 => packed' = packed
           /\ Told <= all
<1>1. packed \in Seq(Nat) /\ Rising(packed) /\ Told <= plain /\ plain \in Nat
  BY SizesAssumption DEF PackedInv, TypeInv
<1>2. Told = Upto(packed, Len(packed)) /\ Told \in Nat /\ Told <= all
  BY <1>1, ToldIsLast
<1>3. /\ packed' \in Seq(Nat) /\ Len(packed') = Len(packed) + Len(s)
      /\ Rising(packed')
      /\ \A k \in 1..Len(s) : Upto(packed', Len(packed) + k) = s[k]
      /\ Upto(packed', Len(packed')) <= all
  BY <1>1, <1>2, Appended
<1>4. Told' = Upto(packed', Len(packed'))
  <2>1. packed' = <<>> <=> Len(packed') = 0
    BY <1>3
  <2>2. QED
    BY <2>1 DEF Told, Upto
<1>5. Len(packed') \in Nat /\ Upto(packed', Len(packed')) \in Nat
  BY <1>3 DEF Upto
<1>6. s \in Seq(Nat) /\ Len(s) \in Nat
  BY DEF Emission
<1>7. Len(s) > 0 => Told' = s[Len(s)]
  BY <1>3, <1>4, <1>6
<1>8. Len(s) = 0 => packed' = packed
  BY <1>1, <1>6
<1>9. QED
  BY <1>2, <1>3, <1>4, <1>5, <1>7, <1>8

(* Integer division by the sizes of blocks. *)
LEMMA Halves ==
    ASSUME NEW n \in Nat
    PROVE  /\ n \div 2 \in Nat /\ n \in {2 * (n \div 2), 2 * (n \div 2) + 1}
           /\ (n \div 1) = n /\ n % 1 = 0
OBVIOUS

(* How long the file is, before and after the padding. *)
LEMMA EncipheredType ==
    ASSUME stack \in Stacks, NEW n \in Nat
    PROVE  /\ Enciphered(n) \in 0..n
           /\ Cipher = "none" => Padded(n) = n
           /\ Cipher = "blowfish" => Padded(n) = n + 1
           /\ Cipher = "aes" => Padded(n) \in {n + 1, n + 2} /\ Padded(n) % 2 = 0
<1>1. CASE Cipher = "none"
  BY <1>1 DEF Enciphered, Padded
<1>2. CASE Cipher = "blowfish"
  BY <1>2, Halves DEF Enciphered, Padded, Block
<1>3. CASE Cipher = "aes"
  BY <1>3, Halves DEF Enciphered, Padded, Block
<1>4. QED
  BY <1>1, <1>2, <1>3, CodecNames

(* A write keeps the invariant. *)
LEMMA WriteStep ==
    ASSUME IInv, NEW n \in Nat, Write(n)
    PROVE  IInv'
<1>1. /\ status = "writing" /\ status' = status /\ stack' = stack
      /\ plain' = plain + n
      /\ plain + n <= MaxPlain /\ Len(packed') <= MaxPacked
      /\ Plausible(packed')
      /\ file' = Enciphered(Len(packed'))
      /\ fileRead' = fileRead /\ finished' = finished /\ fed' = fed
      /\ consumed' = consumed /\ got' = got
  BY DEF Write, readVars
<1>2. PICK s \in Emitted(plain + n) : packed' = packed \o s
  BY DEF Write
<1>3. /\ TypeInv /\ PackedInv /\ stack \in Stacks /\ plain \in Nat
      /\ plain + n \in Nat
  BY SizesAssumption DEF IInv, TypeInv
<1>4. packed \in Seq(Nat) /\ Told <= plain + n /\ Told \in Nat
      /\ Told = Upto(packed, Len(packed))
  BY <1>3, ToldIsLast DEF PackedInv
<1>5. /\ Emission(packed, s, plain + n)
      /\ Codec = "none" =>
             Len(s) = plain + n - Told /\ \A k \in 1..(plain + n - Told) : s[k] = Told + k
      /\ Codec = "zstd" => s = <<>> \/ (BlockAfter(packed, s, plain + n) /\ plain + n # Told)
  BY <1>3, <1>4, WriteEmission
<1>6. /\ packed' \in Seq(Nat) /\ Len(packed') \in Nat /\ Rising(packed')
      /\ Told' = Upto(packed', Len(packed')) /\ Told' <= plain + n
      /\ Told' \in Nat
      /\ Len(packed') = Len(packed) + Len(s)
      /\ Len(s) = 0 => packed' = packed
  BY <1>2, <1>3, <1>5, Grow
<1>7. Codec = "none" => Len(packed') = plain' /\ \A i \in 1..plain' : packed'[i] = i
  <2> SUFFICES ASSUME Codec = "none"
               PROVE  Len(packed') = plain' /\ \A i \in 1..plain' : packed'[i] = i
    OBVIOUS
  <2>1. Len(packed) = plain /\ \A i \in 1..plain : packed[i] = i
    BY <1>3 DEF PackedInv
  <2>2. Told = plain
    BY <1>3, <1>4, <2>1 DEF Upto
  <2>3. s \in Seq(Nat) /\ Len(s) = n /\ \A k \in 1..n : s[k] = plain + k
    BY <1>3, <1>5, <2>2 DEF Emission
  <2>4. \A i \in 1..plain + n : packed'[i] = i
    BY <1>2, <1>3, <1>4, <2>1, <2>3
  <2>5. QED
    BY <1>1, <1>6, <2>1, <2>3, <2>4
<1>8. Codec = "zstd" => Windowed(packed') /\ BlocksEnd(packed')
  <2> SUFFICES ASSUME Codec = "zstd" PROVE Windowed(packed') /\ BlocksEnd(packed')
    OBVIOUS
  <2>1. Rising(packed) /\ Windowed(packed) /\ BlocksEnd(packed)
    BY <1>1, <1>3 DEF PackedInv
  <2>2. CASE s = <<>>
    <3>1. packed' = packed
      BY <1>6, <2>2
    <3>2. QED
      BY <2>1, <3>1
  <2>3. CASE BlockAfter(packed, s, plain + n) /\ plain + n # Told
    <3>1. Len(s) < ZStdInSize
      BY <2>3, SizesAssumption DEF BlockAfter
    <3>2. Windowed(packed')
      BY <1>2, <1>3, <1>4, <1>5, <2>1, <3>1, LessThanABuffer
    <3>3. Upto(packed, Len(packed)) < plain + n
      BY <1>3, <1>4, <2>3
    <3>4. BlocksEnd(packed')
      BY <1>2, <1>3, <1>4, <1>5, <2>1, <2>3, <3>3, BlockEnds
    <3>5. QED
      BY <3>2, <3>4
  <2>4. QED
    BY <1>5, <2>2, <2>3
<1>9. Codec' = Codec /\ Cipher' = Cipher
  BY <1>1 DEF Codec, Cipher
<1>10. PackedInv'
  BY <1>1, <1>6, <1>7, <1>8, <1>9 DEF PackedInv, Plausible, Closed
<1>11. file' \in 0..Len(packed')
  BY <1>1, <1>3, <1>6, EncipheredType
<1>12. FileInv'
  BY <1>1, <1>11 DEF FileInv, IInv, Closed
<1>13. fed = 0 /\ consumed = 0 /\ got = 0
  BY <1>1 DEF IInv, FileInv, Closed
<1>14. GotInv'
  BY <1>1, <1>6, <1>7, <1>9, <1>13 DEF GotInv, Upto, Closed
<1>15. TypeInv'
  BY <1>1, <1>3 DEF TypeInv
<1>16. QED
  BY <1>1, <1>10, <1>12, <1>14, <1>15 DEF IInv, Complete, NoException

(* What close() adds, whether it succeeds or not. *)
LEMMA EndStep ==
    ASSUME IInv, status = "writing", NEW s \in Ended, packed' = packed \o s,
           Len(packed') <= MaxPacked, stack' = stack, plain' = plain,
           Codec = "deflate" => Plausible(packed'),
           status' \in {"aborted", "reading"}, Reader = "lines" => plain # 1
    PROVE  PackedInv' /\ Len(packed') \in Nat
<1>1. TypeInv /\ PackedInv /\ stack \in Stacks /\ plain \in Nat
  BY SizesAssumption DEF IInv, TypeInv
<1>2. /\ packed \in Seq(Nat) /\ Rising(packed)
      /\ Told = Upto(packed, Len(packed)) /\ Told <= plain
  BY <1>1, ToldIsLast DEF PackedInv
<1>3. /\ Emission(packed, s, plain)
      /\ Codec # "none" => Len(s) > 0 \/ (Told = plain /\ Len(packed) > 0)
      /\ Len(s) > 0 => s[Len(s)] = plain
      /\ Codec = "none" => s = <<>>
      /\ Codec = "zstd" => IF Told = plain THEN s = <<plain>>
                           ELSE BlockAfter(packed, s, plain)
  BY <1>1, EndEmission
<1>4. /\ packed' \in Seq(Nat) /\ Len(packed') \in Nat /\ Rising(packed')
      /\ Told' <= plain /\ Len(packed') = Len(packed) + Len(s)
      /\ Len(s) > 0 => Told' = s[Len(s)]
      /\ Len(s) = 0 => packed' = packed
  BY <1>1, <1>3, Grow
<1>5. Len(s) \in Nat /\ Len(packed) \in Nat
  BY <1>2, <1>3 DEF Emission
<1>6. Codec = "none" => /\ packed' = packed /\ Len(packed) = plain
                        /\ \A i \in 1..plain : packed[i] = i
  BY <1>1, <1>3, <1>4 DEF PackedInv
<1>7. Told' = plain
  <2>1. CASE Len(s) > 0
    BY <1>3, <1>4, <2>1
  <2>2. CASE Len(s) = 0
    <3>1. packed' = packed /\ Told' = Told
      BY <1>4, <2>2 DEF Told
    <3>2. CASE Codec = "none"
      BY <1>1, <1>2, <1>6, <3>1, <3>2 DEF Upto
    <3>3. CASE Codec # "none"
      BY <1>3, <2>2, <3>1, <3>3
    <3>4. QED
      BY <3>2, <3>3
  <2>3. QED
    BY <1>5, <2>1, <2>2
<1>8. Codec # "none" => Len(packed') > 0
  BY <1>3, <1>4, <1>5
<1>9. Codec = "zstd" => Windowed(packed')
  <2> SUFFICES ASSUME Codec = "zstd" PROVE Windowed(packed')
    OBVIOUS
  <2>1. Windowed(packed) /\ BlocksEnd(packed)
    BY <1>1 DEF PackedInv
  <2>2. Len(s) < ZStdInSize
    <3>1. /\ ZStdInSize \in Nat /\ ZStdInSize > 1 /\ ZStdInSize > MaxBlock
          /\ MaxBlock \in Nat
      BY SizesAssumption
    <3>2. CASE Told = plain
      <4>1. s = <<plain>>
        BY <1>3, <3>2
      <4>2. Len(<<plain>>) < ZStdInSize
        BY <3>1
      <4>3. QED
        BY <4>1, <4>2
    <3>3. CASE Told # plain
      BY <1>3, <3>1, <3>3 DEF BlockAfter
    <3>4. QED
      BY <3>2, <3>3
  <2>3. QED
    BY <1>1, <1>2, <1>3, <2>1, <2>2, LessThanABuffer
<1>10. Codec' = Codec /\ Reader' = Reader
  BY DEF Codec, Reader
<1>11. Plausible(packed)'
  BY <1>10 DEF Plausible
<1>12. QED
  BY <1>1, <1>4, <1>6, <1>7, <1>8, <1>9, <1>10, <1>11 DEF PackedInv, Closed

(* So does a close. *)
LEMMA CloseStep ==
    ASSUME IInv, Close
    PROVE  IInv'
<1>1. /\ status = "writing" /\ status' = "reading" /\ stack' = stack
      /\ plain' = plain
      /\ Len(packed') <= MaxPacked /\ Plausible(packed')
      /\ file' = Padded(Len(packed'))
      /\ fileRead' = fileRead /\ finished' = finished /\ fed' = fed
      /\ consumed' = consumed /\ got' = got /\ (Reader = "lines" => plain # 1)
  BY DEF Close, readVars
<1>2. PICK s \in Ended : packed' = packed \o s
  BY DEF Close
<1>3. PackedInv' /\ Len(packed') \in Nat
  BY <1>1, <1>2, EndStep
<1>4. fileRead = 0 /\ finished = FALSE /\ fed = 0 /\ consumed = 0 /\ got = 0
  BY <1>1 DEF IInv, FileInv, Closed
<1>5. Codec' = Codec /\ Cipher' = Cipher /\ stack \in Stacks
  BY <1>1 DEF Codec, Cipher, IInv, TypeInv
<1>6. /\ Cipher = "none" => file' = Len(packed')
      /\ Cipher = "blowfish" => file' = Len(packed') + 1
      /\ Cipher = "aes" => file' \in {Len(packed') + 1, Len(packed') + 2} /\ file' % 2 = 0
      /\ file' \in Nat
  <2>1. PICK m \in Nat : m = Len(packed')
    BY <1>3
  <2>2. file' = Padded(m)
    BY <1>1, <2>1
  <2>3. /\ Cipher = "none" => Padded(m) = m
        /\ Cipher = "blowfish" => Padded(m) = m + 1
        /\ Cipher = "aes" => Padded(m) \in {m + 1, m + 2} /\ Padded(m) % 2 = 0
    BY <1>5, EncipheredType
  <2>4. Padded(m) \in Nat
    BY <1>5, <2>3, CodecNames
  <2>5. QED
    BY <2>1, <2>2, <2>3, <2>4
<1>7. fileRead' = 0 /\ finished' = FALSE /\ fed' = 0 /\ 0 % 2 = 0
  BY <1>1, <1>4
<1>8. FileInv'
  <2>1. Delivered(fileRead, finished, fed)'
    <3>1. Cipher' = "none" => file' = Len(packed') /\ fed' = fileRead'
      BY <1>5, <1>6, <1>7
    <3>2. Cipher' = "blowfish" =>
            file' = Len(packed') + 1 /\ fed' = IF fileRead' = 0 THEN 0 ELSE fileRead' - 1
      BY <1>5, <1>6, <1>7
    <3>3. Cipher' = "aes" =>
            /\ file' \in {Len(packed') + 1, Len(packed') + 2}
            /\ file' % 2 = 0 /\ fileRead' % 2 = 0
            /\ finished' => fileRead' = file'
            /\ fed' = IF finished' THEN Len(packed')
                      ELSE IF fileRead' = 0 THEN 0 ELSE fileRead' - 2
      BY <1>5, <1>6, <1>7
    <3>4. QED
      BY <3>1, <3>2, <3>3 DEF Delivered
  <2>2. fileRead' \in 0..file'
    BY <1>6, <1>7
  <2>3. finished' \in BOOLEAN
    BY <1>7, Zenon
  <2>4. QED
    BY <1>1, <1>6, <2>1, <2>2, <2>3 DEF FileInv, Closed
<1>9. Codec # "none" => Len(packed') # 0
  BY <1>1, <1>3, <1>5 DEF PackedInv, Closed
<1>10. GotInv'
  BY <1>1, <1>3, <1>4, <1>5, <1>9 DEF GotInv, Upto
<1>11. TypeInv'
  BY <1>1 DEF IInv, TypeInv
<1>12. QED
  BY <1>1, <1>3, <1>8, <1>10, <1>11 DEF IInv, Complete, NoException

(* And one that throws. *)
LEMMA CloseThrowsStep ==
    ASSUME IInv, CloseThrows
    PROVE  IInv'
<1>1. /\ status = "writing" /\ status' = "aborted" /\ stack' = stack
      /\ plain' = plain
      /\ Len(packed') <= MaxPacked /\ file' = Enciphered(Len(packed'))
      /\ fileRead' = fileRead /\ finished' = finished /\ fed' = fed
      /\ consumed' = consumed /\ got' = got /\ (Reader = "lines" => plain # 1)
  BY DEF CloseThrows, readVars
<1>2. PICK s \in Ended : OnceMore(s) /\ packed' = packed \o s
  BY DEF CloseThrows
<1>3. PackedInv' /\ Len(packed') \in Nat
  BY <1>1, <1>2, EndStep DEF OnceMore
<1>4. fileRead = 0 /\ finished = FALSE /\ fed = 0 /\ consumed = 0 /\ got = 0
  BY <1>1 DEF IInv, FileInv, Closed
<1>5. Codec' = Codec /\ stack \in Stacks /\ Codec = "bzip"
  BY <1>1, <1>2 DEF Codec, OnceMore, IInv, TypeInv
<1>6. file' \in 0..Len(packed')
  <2>1. PICK m \in Nat : m = Len(packed')
    BY <1>3
  <2>2. file' = Enciphered(m)
    BY <1>1, <2>1
  <2>3. QED
    BY <1>5, <2>1, <2>2, EncipheredType
<1>7. FileInv'
  <2>1. fileRead' \in 0..file'
    BY <1>1, <1>3, <1>4, <1>6
  <2>2. finished' = FALSE /\ finished' \in BOOLEAN
    BY <1>1, <1>4, Zenon
  <2>3. QED
    BY <1>1, <1>4, <1>6, <2>1, <2>2 DEF FileInv, Closed
<1>8. GotInv'
  BY <1>1, <1>3, <1>4, <1>5 DEF GotInv, Upto, Closed
<1>9. TypeInv'
  BY <1>1 DEF IInv, TypeInv
<1>10. QED
  BY <1>1, <1>3, <1>7, <1>8, <1>9 DEF IInv, Complete, NoException

-----------------------------------------------------------------------------
(* Reading from the cipher or the file.                                    *)

(* What a read gives: nothing only at the end, or when the first block may *)
(* be the last one; a single unit only when it is the last one.            *)
Units(u) == IF u.n = EOF THEN 0 ELSE u.n
Gives(u, len) ==
    /\ u.n \in Nat \cup {EOF}
    /\ u.fileRead \in 0..file /\ u.finished \in BOOLEAN
    /\ fed + Units(u) \in 0..Len(packed)
    /\ Delivered(u.fileRead, u.finished, fed + Units(u))
    /\ u.n = EOF => fed = Len(packed)
    /\ u.n = 0 => fed = Len(packed) \/ SingleBlock
    /\ u.n = 1 => fed + 1 = Len(packed)
    /\ Cipher = "none" => u.n = EOF \/ u.n = len \/ fed + u.n = Len(packed)

(* What holds of a file that is being read. *)
LEMMA ReadingFrom ==
    ASSUME IInv, status = "reading"
    PROVE  /\ Delivered(fileRead, finished, fed) /\ fileRead \in 0..file
           /\ file \in Nat
           /\ finished \in BOOLEAN /\ packed \in Seq(Nat)
           /\ Len(packed) \in Nat
           /\ fed \in 0..Len(packed) /\ stack \in Stacks
BY DEF IInv, FileInv, PackedInv, GotInv, TypeInv, Closed

(* fread() gives all that was asked for, or what is left. *)
LEMMA FileReads ==
    ASSUME fileRead \in 0..file, file \in Nat, NEW len \in Nat, len > 0
    PROVE  LET r == FileRead(len)
           IN  /\ r = EOF => fileRead = file
               /\ r # EOF => /\ r \in 1..len /\ fileRead + r \in 0..file
                             /\ r = len \/ fileRead + r = file
BY DEF FileRead, EOF, Least

(* On a file, standard input does the same. *)
LEMMA StandardReads ==
    ASSUME fileRead \in 0..file, file \in Nat, NEW len \in Nat, len > 0
    PROVE  StandardRead(len) = FileRead(len)
BY DEF FileRead, StandardRead, EOF, Least

(* How many units EVP_DecryptUpdate() has given out of the first n. *)
LEMMA DecipheredIs ==
    ASSUME NEW n \in Nat
    PROVE  /\ Cipher = "blowfish" => Deciphered(n) = IF n = 0 THEN 0 ELSE n - 1
           /\ Cipher = "aes" /\ n % 2 = 0 => Deciphered(n) = IF n = 0 THEN 0 ELSE n - 2
<1>1. CASE Cipher = "blowfish"
  BY <1>1, Halves DEF Deciphered, Block
<1>2. CASE Cipher = "aes" /\ n % 2 = 0
  <2>1. n = 0 => n \div 2 = 0
    OBVIOUS
  <2>2. QED
    BY <1>2, <2>1 DEF Deciphered, Block
<1>3. QED
  BY <1>1, <1>2

(* EVP_CipherFinal_ex() finds the padding. *)
LEMMA FinalBlock ==
    ASSUME IInv, status = "reading", Cipher # "none"
    PROVE  /\ Cipher = "blowfish" => DecryptFinal = EOF
           /\ Cipher = "aes" => DecryptFinal = IF file = Len(packed) + 2 THEN EOF ELSE 1
<1>1. /\ Delivered(fileRead, finished, fed) /\ file \in Nat
      /\ Len(packed) \in Nat
      /\ stack \in Stacks
  BY ReadingFrom
<1>2. CASE Cipher = "blowfish"
  <2>1. file = Len(packed) + 1 /\ Padded(Len(packed)) = Len(packed) + 1
    BY <1>1, <1>2, EncipheredType DEF Delivered
  <2>2. Deciphered(file) = Len(packed)
    BY <1>1, <1>2, <2>1, DecipheredIs
  <2>3. QED
    BY <1>1, <1>2, <2>1, <2>2 DEF DecryptFinal, LastBlock
<1>3. CASE Cipher = "aes"
  <2>1. /\ file \in {Len(packed) + 1, Len(packed) + 2} /\ file % 2 = 0
        /\ Padded(Len(packed)) \in {Len(packed) + 1, Len(packed) + 2}
        /\ Padded(Len(packed)) % 2 = 0
    BY <1>1, <1>3, EncipheredType DEF Delivered
  <2>2. file = Padded(Len(packed))
    BY <1>1, <2>1
  <2>3. Deciphered(file) = file - 2
    BY <1>1, <1>3, <2>1, DecipheredIs
  <2>4. QED
    BY <1>1, <1>3, <2>1, <2>2, <2>3 DEF DecryptFinal, LastBlock
<1>4. QED
  BY <1>1, <1>2, <1>3, CodecNames

(* AES blocks have two units. *)
LEMMA Even ==
    ASSUME NEW m \in Nat, NEW n \in Nat, m % 2 = 0, n % 2 = 0
    PROVE  (m + n) % 2 = 0 /\ m # n + 1
OBVIOUS

(* Without a cipher a read gives what the file gives. *)
LEMMA PlainGives ==
    ASSUME IInv, status = "reading", NEW len \in Nat, len > 2, Cipher = "none",
           NEW r, r = FileRead(len)
    PROVE  Gives(Under(r, r, finished), len)
<1>1. /\ Delivered(fileRead, finished, fed) /\ fileRead \in 0..file
      /\ file \in Nat
      /\ finished \in BOOLEAN /\ Len(packed) \in Nat
  BY ReadingFrom
<1>2. file = Len(packed) /\ fed = fileRead
  BY <1>1 DEF Delivered
<1>3. /\ r = EOF => fileRead = file
      /\ r # EOF => /\ r \in 1..len /\ fileRead + r \in 0..file
                    /\ r = len \/ fileRead + r = file
  BY <1>1, FileReads
<1> DEFINE u == Under(r, r, finished)
<1>4. u.n = r /\ u.finished = finished
  BY DEF Under
<1>5. CASE r = EOF
  <2>1. u.fileRead = file /\ Units(u) = 0
    BY <1>1, <1>3, <1>4, <1>5 DEF Under, Units, EOF
  <2>2. QED
    BY <1>1, <1>2, <1>3, <1>4, <1>5, <2>1 DEF Gives, Delivered, EOF
<1>6. CASE r # EOF
  <2>1. u.fileRead = fileRead + r /\ Units(u) = r /\ r \in Nat
    BY <1>1, <1>3, <1>4, <1>6 DEF Under, Units
  <2>2. QED
    BY <1>1, <1>2, <1>3, <1>4, <1>6, <2>1 DEF Gives, Delivered, EOF
<1>7. QED
  BY <1>5, <1>6

(* With one it gives less, or the last block after the end of the file. *)
LEMMA CipherGives ==
    ASSUME IInv, status = "reading", NEW len \in Nat, len > 2, Cipher # "none",
           Cipher = "aes" => len % 2 = 0 \/ len >= CipherChunk
    PROVE  Gives(CipherRead(len), len)
<1>1. /\ Delivered(fileRead, finished, fed) /\ fileRead \in 0..file
      /\ file \in Nat
      /\ finished \in BOOLEAN /\ Len(packed) \in Nat /\ fed \in 0..Len(packed)
      /\ stack \in Stacks
  BY ReadingFrom
<1> DEFINE size == Least(len, CipherChunk)
           r == FileRead(size)
           u == CipherRead(len)
<1>2. size \in Nat /\ size > 2 /\ (Cipher = "aes" => size % 2 = 0)
  BY SizesAssumption DEF Least
<1>3. /\ r = EOF => fileRead = file
      /\ r # EOF => /\ r \in 1..size /\ fileRead + r \in 0..file
                    /\ r = size \/ fileRead + r = file
  <2> HIDE DEF size
  <2>1. QED
    BY <1>1, <1>2, FileReads
<1>4. u = IF r # EOF THEN Under(Deciphered(fileRead + r) - Deciphered(fileRead), r, finished)
          ELSE Under(IF finished THEN EOF ELSE DecryptFinal, r, TRUE)
  BY DEF CipherRead
<1> HIDE DEF size, r, u
<1>5. CASE r = EOF
  <2>0. u.fileRead = fileRead
    BY <1>1, <1>4, <1>5 DEF Under, EOF
  <2>1. u.n = (IF finished THEN EOF ELSE DecryptFinal) /\ u.finished = TRUE
    BY <1>4, <1>5 DEF Under
  <2>2. CASE Cipher = "blowfish"
    <3>1. u.n = EOF /\ Units(u) = 0
      BY <2>1, <2>2, FinalBlock DEF Units
    <3>2. fed = Len(packed)
      BY <1>1, <1>3, <1>5, <2>2 DEF Delivered
    <3>3. u.finished \in BOOLEAN /\ u.n \in Nat \cup {EOF}
      BY <2>1, <3>1, Zenon
    <3>4. fed + Units(u) = fed /\ u.n # 0 /\ u.n # 1
      BY <1>1, <3>1 DEF EOF
    <3>5. Delivered(u.fileRead, u.finished, fed)
      BY <1>1, <2>0, <2>2 DEF Delivered
    <3>6. u.fileRead \in 0..file /\ fed + Units(u) \in 0..Len(packed)
      BY <1>1, <2>0, <3>4
    <3>7. Delivered(u.fileRead, u.finished, fed + Units(u))
      BY <3>4, <3>5, Zenon
    <3>8. QED
      BY <2>2, <3>2, <3>3, <3>4, <3>6, <3>7, Zenon DEF Gives, u
  <2>3. CASE Cipher = "aes"
    <3>1. /\ file \in {Len(packed) + 1, Len(packed) + 2} /\ file % 2 = 0
          /\ fed = IF finished THEN Len(packed) ELSE file - 2
      BY <1>1, <1>3, <1>5, <2>3 DEF Delivered
    <3>2. u.n \in {EOF, 1} /\ fed + Units(u) = Len(packed)
      BY <1>1, <2>1, <2>3, <3>1, FinalBlock DEF Units, EOF
    <3>3. u.finished \in BOOLEAN
      BY <2>1, Zenon
    <3>4. u.n \in Nat \cup {EOF} /\ u.n # 0 /\ (u.n = 1 => fed + 1 = Len(packed))
          /\ (u.n = EOF => fed = Len(packed))
      BY <1>1, <3>1, <3>2 DEF EOF, Units
    <3>5. u.fileRead = file /\ fileRead % 2 = 0
      BY <1>1, <1>3, <1>5, <2>0, <2>3 DEF Delivered
    <3>6. Delivered(u.fileRead, u.finished, Len(packed))
      BY <2>1, <2>3, <3>1, <3>5 DEF Delivered
    <3>7. u.fileRead \in 0..file /\ fed + Units(u) \in 0..Len(packed)
      BY <1>1, <3>2, <3>5
    <3>8. Delivered(u.fileRead, u.finished, fed + Units(u))
      BY <3>2, <3>6, Zenon
    <3>9. QED
      BY <2>3, <3>3, <3>4, <3>7, <3>8, Zenon DEF Gives, u
  <2>4. QED
    BY <1>1, <2>2, <2>3, CodecNames
<1>6. CASE r # EOF
  <2>0. u.finished = finished
    BY <1>4, <1>6 DEF Under
  <2>1. /\ u.n = Deciphered(fileRead + r) - Deciphered(fileRead)
        /\ u.fileRead = fileRead + r /\ r \in Nat /\ r > 0 /\ fileRead \in Nat
    BY <1>1, <1>2, <1>3, <1>4, <1>6 DEF Under
  <2>2. CASE Cipher = "blowfish"
    <3>1. /\ file = Len(packed) + 1
          /\ fed = IF fileRead = 0 THEN 0 ELSE fileRead - 1
      BY <1>1, <2>2 DEF Delivered
    <3>2. u.n = (fileRead + r - 1) - fed /\ u.n \in Nat
      <4>1. PICK m \in Nat : m = fileRead + r /\ m # 0
        BY <2>1
      <4>2. Deciphered(m) = m - 1 /\ Deciphered(fileRead) = fed
        BY <2>1, <2>2, <3>1, <4>1, DecipheredIs
      <4>3. u.n = (m - 1) - fed
        BY <2>1, <4>1, <4>2
      <4>4. QED
        <5>1. fileRead \in Nat /\ r \in Nat /\ m = fileRead + r /\ r >= 1
          BY <2>1, <4>1
        <5>2. fed \in Nat /\ fed <= m - 1
          BY <3>1, <5>1
        <5>3. QED
          BY <4>1, <4>3, <5>1, <5>2
    <3>3. Units(u) = u.n
      BY <3>2 DEF Units, EOF
    <3>4. Delivered(u.fileRead, u.finished, fed + Units(u))
      BY <1>1, <2>0, <2>1, <2>2, <3>1, <3>2, <3>3 DEF Delivered
    <3>5. /\ fed + Units(u) \in 0..Len(packed)
          /\ fed + Units(u) = fileRead + r - 1
      BY <1>1, <1>3, <1>6, <2>1, <3>1, <3>2, <3>3
    <3>6. u.n \in {0, 1} => fed + u.n = Len(packed)
      BY <1>1, <1>2, <1>3, <1>6, <2>1, <3>1, <3>2
    <3>7. u.finished \in BOOLEAN
      BY <1>1, <2>0, Zenon
    <3>8. u.fileRead \in 0..file
      BY <1>3, <1>6, <2>1
    <3>9. /\ u.n \in Nat \cup {EOF} /\ u.n # EOF
          /\ u.n = 0 => fed = Len(packed)
          /\ u.n = 1 => fed + 1 = Len(packed)
      BY <1>1, <3>2, <3>6 DEF EOF
    <3>10. QED
      BY <2>2, <3>4, <3>5, <3>7, <3>8, <3>9, Zenon DEF Gives, u
  <2>3. CASE Cipher = "aes"
    <3>1. /\ file \in {Len(packed) + 1, Len(packed) + 2} /\ file % 2 = 0
          /\ fileRead % 2 = 0
          /\ ~finished /\ fed = IF fileRead = 0 THEN 0 ELSE fileRead - 2
      BY <1>1, <1>3, <1>6, <2>0, <2>1, <2>3 DEF Delivered
    <3>2. (fileRead + r) % 2 = 0 /\ r >= 2
      <4>1. CASE r = size
        BY <1>2, <2>1, <2>3, <3>1, <4>1, Even
      <4>2. CASE fileRead + r = file
        <5>1. r # 1
          BY <1>1, <2>1, <3>1, <4>2, Even
        <5>2. QED
          BY <2>1, <3>1, <4>2, <5>1
      <4>3. QED
        BY <1>3, <1>6, <4>1, <4>2
    <3>3. u.n = (fileRead + r - 2) - fed /\ u.n \in Nat
      <4>1. PICK m \in Nat : m = fileRead + r /\ m # 0 /\ m % 2 = 0
        BY <2>1, <3>2
      <4>2. Deciphered(m) = m - 2 /\ Deciphered(fileRead) = fed
        BY <2>1, <2>3, <3>1, <4>1, DecipheredIs
      <4>3. u.n = (m - 2) - fed
        BY <2>1, <4>1, <4>2
      <4>4. QED
        <5>1. fileRead \in Nat /\ r \in Nat /\ m = fileRead + r /\ r >= 2
          BY <2>1, <3>2, <4>1
        <5>2. fed \in Nat /\ fed <= m - 2
          BY <3>1, <5>1
        <5>3. QED
          BY <4>1, <4>3, <5>1, <5>2
    <3>4. Units(u) = u.n
      BY <3>3 DEF Units, EOF
    <3>5. Delivered(u.fileRead, u.finished, fed + Units(u))
      BY <1>1, <2>0, <2>1, <2>3, <3>1, <3>2, <3>3, <3>4 DEF Delivered
    <3>6. fed + Units(u) \in 0..Len(packed)
      BY <1>1, <1>3, <1>6, <2>1, <3>1, <3>3, <3>4
    <3>7. u.n = 0 => file = 2
      BY <1>1, <1>2, <1>3, <1>6, <2>1, <3>1, <3>2, <3>3
    <3>8. u.n # 1
      BY <1>1, <2>1, <3>1, <3>2, <3>3
    <3>9. file = 2 => SingleBlock
      BY <2>3 DEF SingleBlock, Block
    <3>10. u.finished \in BOOLEAN
      BY <1>1, <2>0, Zenon
    <3>11. u.fileRead \in 0..file
      BY <1>3, <1>6, <2>1
    <3>12. u.n \in Nat \cup {EOF} /\ u.n # EOF
      BY <3>3 DEF EOF
    <3>13. QED
      BY <2>3, <3>5, <3>6, <3>7, <3>8, <3>9, <3>10, <3>11, <3>12, Zenon DEF Gives, u
  <2>4. QED
    BY <1>1, <2>2, <2>3, CodecNames
<1>7. QED
  BY <1>5, <1>6 DEF u

(* Both together. *)
LEMMA InGives ==
    ASSUME IInv, status = "reading", NEW len \in Nat, len > 2,
           Cipher = "aes" => len % 2 = 0 \/ len >= CipherChunk
    PROVE  Gives(In(len), len)
<1>1. stack \in Stacks /\ fileRead \in 0..file /\ file \in Nat
  BY ReadingFrom
<1>2. CASE Cipher = "none"
  <2>1. In(len) = Under(FileRead(len), FileRead(len), finished)
    BY <1>1, <1>2, StandardReads DEF In
  <2>2. QED
    BY <1>2, <2>1, PlainGives
<1>3. CASE Cipher # "none"
  <2>1. In(len) = CipherRead(len)
    BY <1>1, <1>3, CodecNames DEF In, AesRead, BlowfishRead
  <2>2. QED
    BY <1>3, <2>1, CipherGives
<1>4. QED
  BY <1>2, <1>3

-----------------------------------------------------------------------------
(* Decompressing.                                                          *)
LEMMA ReachedIs ==
    ASSUME Len(packed) \in Nat, consumed \in Nat,
           NEW avail \in consumed..Len(packed), NEW len
    PROVE  LET n == Reached(avail, len)
           IN  n \in consumed..avail /\ (n = avail \/ Full(n, len))
<1> DEFINE T == {n \in consumed..avail : n = avail \/ Full(n, len)}
           Stops(n) == /\ n = Least(avail, Len(packed)) \/ Full(n, len)
                       /\ \A k \in consumed..(n - 1) : ~Full(k, len)
<1>1. T \subseteq Nat /\ avail \in T /\ T \subseteq consumed..avail
  OBVIOUS
<1>2. PICK n \in T : \A m \in T : n <= m
  <2> HIDE DEF T
  <2>1. QED
    BY <1>1, Smallest
<1>3. Least(avail, Len(packed)) = avail
  BY DEF Least
<1>4. ASSUME NEW k \in consumed..(n - 1) PROVE ~Full(k, len)
  <2>1. k \in consumed..avail /\ k < n
    BY <1>1, <1>2
  <2>2. k \notin T
    BY <1>1, <1>2, <2>1
  <2>3. QED
    BY <2>1, <2>2
<1>5. n \in consumed..avail /\ Stops(n)
  BY <1>1, <1>2, <1>3, <1>4
<1>6. Reached(avail, len) = CHOOSE m \in consumed..avail : Stops(m)
  BY DEF Reached
<1>7. Reached(avail, len) \in consumed..avail /\ Stops(Reached(avail, len))
  <2> HIDE DEF Stops
  <2>1. QED
    BY <1>5, <1>6
<1>8. QED
  BY <1>3, <1>7

(* What can be decompressed in the end is all that was written. *)
LEMMA UptoTypes ==
    ASSUME IInv, status = "reading"
    PROVE  /\ \A i \in 0..Len(packed) : Upto(packed, i) \in Nat
           /\ \A i, j \in 0..Len(packed) : i <= j =>
                    Upto(packed, i) <= Upto(packed, j)
           /\ Upto(packed, Len(packed)) = plain
           /\ \A i \in 0..Len(packed) : Ready(i) = Upto(packed, i) - got
           /\ Codec # "none" => Len(packed) > 0
<1>1. PackedInv /\ packed \in Seq(Nat) /\ Rising(packed)
  BY DEF IInv, PackedInv
<1>2. \A i \in 0..Len(packed) : Upto(packed, i) \in Nat
  BY <1>1 DEF Upto
<1>3. \A i, j \in 0..Len(packed) : i <= j => Upto(packed, i) <= Upto(packed, j)
  BY <1>1, RisingFar
<1>4. Upto(packed, Len(packed)) = plain
  BY <1>1, ToldIsLast DEF PackedInv, Closed
<1>5. \A i \in 0..Len(packed) : Ready(i) = Upto(packed, i) - got
  BY DEF Ready, Upto
<1>6. QED
  BY <1>1, <1>2, <1>3, <1>4, <1>5 DEF PackedInv, Closed

(* What a decompressor makes of "avail" units: it gives out nothing only   *)
(* when there is nothing more in all of them.                              *)
Makes(d, avail, len) ==
    /\ d.out \in 0..len /\ got + d.out \in 0..Upto(packed, avail)
    /\ d.consumed \in 0..avail
    /\ d.consumed = Len(packed) => got + d.out = plain
    /\ Codec \in {"deflate", "zstd"} /\ d.consumed < avail =>
          got + d.out < Upto(packed, avail)
    /\ d.atEnd => got + d.out = plain
    /\ d.out = 0 => Upto(packed, avail) = got /\ d.consumed = avail
    /\ d.out = 0 /\ avail = Len(packed) => d.atEnd

(* One call of the libraries does so. *)
LEMMA DecompressedIs ==
    ASSUME IInv, status = "reading", Codec # "none",
           NEW avail \in fed..Len(packed), NEW len \in Nat, len > 0
    PROVE  Makes(Decompressed(avail, len), avail, len)
<1>1. /\ Len(packed) \in Nat /\ fed \in 0..Len(packed) /\ consumed \in 0..fed
      /\ got \in 0..Upto(packed, fed) /\ avail \in 0..Len(packed)
      /\ avail \in Nat
      /\ Len(packed) > 0 /\ got \in Nat
  BY ReadingFrom, UptoTypes DEF IInv, GotInv
<1> DEFINE n == Reached(avail, len)
           d == Decompressed(avail, len)
<1>2. n \in consumed..avail /\ n \in 0..Len(packed) /\ (n = avail \/ Full(n, len))
  BY <1>1, ReachedIs
<1>3. /\ d.out = Least(len, Ready(n))
      /\ d.consumed = IF n = Len(packed) /\ Ready(n) > len THEN n - 1 ELSE n
      /\ d.atEnd = (n = Len(packed) /\ Ready(n) = Least(len, Ready(n)))
  BY DEF Decompressed
<1> HIDE DEF n, d
<1>4. /\ Ready(n) = Upto(packed, n) - got /\ Upto(packed, n) \in Nat
      /\ Upto(packed, avail) \in Nat /\ Upto(packed, n) <= Upto(packed, avail)
      /\ Upto(packed, fed) \in Nat /\ Upto(packed, fed) <= Upto(packed, avail)
      /\ n = Len(packed) => Upto(packed, n) = plain
  <2>1. Ready(n) = Upto(packed, n) - got
    BY <1>2, UptoTypes
  <2>2. /\ Upto(packed, n) \in Nat /\ Upto(packed, avail) \in Nat
        /\ Upto(packed, fed) \in Nat
    BY <1>1, <1>2, UptoTypes
  <2>3. n <= avail /\ fed <= avail
    BY <1>1, <1>2
  <2>4. Upto(packed, n) <= Upto(packed, avail)
    BY <1>1, <1>2, <2>3, UptoTypes
  <2>5. Upto(packed, fed) <= Upto(packed, avail)
    BY <1>1, <2>3, UptoTypes
  <2>6. n = Len(packed) => Upto(packed, n) = plain
    BY UptoTypes
  <2>7. QED
    BY <2>1, <2>2, <2>4, <2>5, <2>6
<1>5. Full(n, len) => Ready(n) >= len /\ (Codec \in {"deflate", "zstd"} => Ready(n) > len)
  <2>1. PICK m \in Int : m = Ready(n)
    BY <1>1, <1>4
  <2>2. Full(n, len) <=> IF Codec \in {"deflate", "zstd"} THEN m > len ELSE m >= len
    BY <2>1 DEF Full
  <2>3. QED
    BY <2>1, <2>2
<1>6. Ready(n) \in Nat
  BY <1>1, <1>2, <1>4, <1>5
<1>7. d.out \in 0..len /\ d.out <= Ready(n) /\ (d.out = len \/ d.out = Ready(n))
  BY <1>3, <1>6 DEF Least
<1>8. got + d.out \in 0..Upto(packed, avail)
  BY <1>1, <1>4, <1>6, <1>7
<1>9. d.consumed \in 0..avail
  BY <1>1, <1>2, <1>3, <1>4, <1>6
<1>10. d.consumed = Len(packed) => got + d.out = plain
  BY <1>1, <1>2, <1>3, <1>4, <1>6, <1>7 DEF Least
<1>11. Codec \in {"deflate", "zstd"} /\ d.consumed < avail =>
          got + d.out < Upto(packed, avail)
  <2> SUFFICES ASSUME Codec \in {"deflate", "zstd"}, d.consumed < avail
               PROVE  Ready(n) > len
    BY <1>1, <1>4, <1>6, <1>7
  <2>1. CASE n = Len(packed) /\ Ready(n) > len
    BY <2>1
  <2>2. CASE ~(n = Len(packed) /\ Ready(n) > len)
    <3>1. n = d.consumed /\ n # avail
      BY <1>3, <2>2
    <3>2. QED
      BY <1>2, <1>5, <3>1
  <2>3. QED
    BY <2>1, <2>2
<1>12. d.atEnd => got + d.out = plain
  <2>1. d.atEnd => n = Len(packed) /\ Ready(n) = d.out
    BY <1>3
  <2>2. n = Len(packed) /\ Ready(n) = d.out => got + d.out = plain
    BY <1>1, <1>4
  <2>3. QED
    BY <2>1, <2>2
<1>13. d.out = 0 => n = avail /\ Ready(n) = 0
  BY <1>2, <1>5, <1>6, <1>7
<1>14. d.out = 0 => Upto(packed, avail) = got /\ d.consumed = avail
  BY <1>1, <1>3, <1>4, <1>13
<1>15. d.out = 0 /\ avail = Len(packed) => d.atEnd
  BY <1>3, <1>13
<1>16. QED
  BY <1>7, <1>8, <1>9, <1>10, <1>11, <1>12, <1>14, <1>15 DEF Makes, d

-----------------------------------------------------------------------------
(* One read.                                                               *)

(* What the stream below a decompressor has given it. *)
Feeds(b) ==
    /\ b.n \in Nat \cup {EOF} /\ b.fileRead \in 0..file
    /\ b.finished \in BOOLEAN
    /\ fed + Units(b) \in fed..Len(packed)
    /\ Delivered(b.fileRead, b.finished, fed + Units(b))
    /\ b.n = EOF => fed = consumed /\ fed = Len(packed)
    /\ fed # consumed => b.n = 0
    /\ fed = consumed /\ b.n = 0 => fed = Len(packed) \/ SingleBlock
    /\ b.n = 1 => fed + 1 = Len(packed)
    /\ Codec = "zstd" /\ Cipher = "none" /\ fed = consumed =>
           b.n = EOF \/ b.n = ZStdInSize \/ fed + b.n = Len(packed)

(* The sizes that the readers ask for. *)
Asked(len) == len = Buffer \/ (len = CodecChunk /\ Reader = "inflate")

(* The refill of a decompressor asks for enough. *)
LEMMA Feeding ==
    ASSUME IInv, status = "reading", NEW len, Asked(len)
    PROVE  /\ len \in Nat /\ len > 2
           /\ Codec = "none" => Gives(Below(len), len)
           /\ Codec # "none" => Feeds(Below(len))
<1>1. /\ stack \in Stacks /\ fed \in 0..Len(packed) /\ Len(packed) \in Nat
      /\ finished \in BOOLEAN
      /\ fileRead \in 0..file /\ file \in Nat
      /\ Delivered(fileRead, finished, fed)
  BY ReadingFrom
<1>2. /\ Buffer \in Nat /\ Buffer > 2 /\ Buffer % 2 = 0
      /\ CodecChunk \in Nat /\ CodecChunk >= Buffer
      /\ CipherChunk \in Nat /\ CipherChunk > 2 /\ ZStdInSize \in Nat
      /\ ZStdInSize >= CipherChunk
  BY SizesAssumption
<1>3. len \in Nat /\ len > 2 /\ (Cipher = "aes" => len % 2 = 0)
  BY <1>1, <1>2, CodecNames DEF Asked
<1>4. CASE Codec = "none"
  <2>1. Below(len) = In(len)
    BY <1>4 DEF Below
  <2>2. QED
    BY <1>3, <1>4, <2>1, InGives
<1>5. CASE Codec # "none"
  <2> DEFINE size == IF Codec = "zstd" THEN ZStdInSize ELSE Least(len, CodecChunk)
             b == Below(len)
  <2>1. b = Refill(size)
    BY <1>1, <1>5, CodecNames DEF Below
  <2>2. size \in Nat /\ size > 2 /\ (Cipher = "aes" => size % 2 = 0 \/ size >= CipherChunk)
    <3>1. CASE Codec = "zstd"
      BY <1>2, <3>1
    <3>2. CASE Codec # "zstd"
      <4>1. size \in {len, CodecChunk} /\ (len = Buffer => size = Buffer)
        BY <1>2, <3>2 DEF Least
      <4>2. Cipher = "aes" => size = Buffer
        BY <1>1, <4>1, CodecNames DEF Asked
      <4>3. QED
        BY <1>2, <1>3, <4>1, <4>2
    <3>3. QED
      BY <3>1, <3>2
  <2>3. Codec = "zstd" => size = ZStdInSize
    OBVIOUS
  <2> HIDE DEF size, b
  <2>4. CASE fed = consumed
    <3>1. Gives(b, size)
      <4>1. b = In(size)
        BY <2>1, <2>4 DEF Refill
      <4>2. QED
        BY <2>2, <4>1, InGives
    <3>2. fed + Units(b) \in fed..Len(packed)
      BY <1>1, <3>1 DEF Gives, Units
    <3>3. b.n = EOF => fed = consumed /\ fed = Len(packed)
      BY <2>4, <3>1 DEF Gives
    <3>4. Codec = "zstd" /\ Cipher = "none" /\ fed = consumed =>
              b.n = EOF \/ b.n = ZStdInSize \/ fed + b.n = Len(packed)
      BY <2>3, <3>1 DEF Gives
    <3>5. Feeds(b)
      BY <2>4, <3>1, <3>2, <3>3, <3>4, Zenon DEF Gives, Feeds
    <3>6. QED
      BY <1>3, <1>5, <3>5 DEF b
  <2>5. CASE fed # consumed
    <3>1. b = Under(0, 0, finished)
      BY <2>1, <2>5 DEF Refill
    <3>2. b.n = 0 /\ b.fileRead = fileRead
      BY <1>1, <3>1 DEF Under
    <3>3. b.finished = finished
      BY <3>1, Zenon DEF Under
    <3>4. /\ Units(b) = 0 /\ b.n # EOF /\ b.n # 1 /\ b.n \in Nat \cup {EOF}
          /\ fed + 0 = fed
          /\ fed \in fed..Len(packed)
      BY <1>1, <3>2 DEF Units, EOF
    <3>5. Feeds(b)
      BY <1>1, <2>5, <3>2, <3>3, <3>4, Zenon DEF Feeds
    <3>6. QED
      BY <1>3, <1>5, <3>5 DEF b
  <2>6. QED
    BY <2>4, <2>5
<1>6. QED
  BY <1>4, <1>5

(* A result and the state that the read leaves. *)
Gained(r) == IF r.n > 0 THEN r.n ELSE 0
GotAll == got = plain \/ (SingleBlock /\ Codec = "zstd")
Sound(r) ==
    /\ r.n \in Nat \cup {EOF, Failed}
    /\ r.fileRead \in 0..file /\ r.finished \in BOOLEAN
    /\ r.fed \in 0..Len(packed) /\ Delivered(r.fileRead, r.finished, r.fed)
    /\ r.consumed \in 0..r.fed /\ got + Gained(r) \in 0..Upto(packed, r.fed)
    /\ Codec = "none" => got + Gained(r) = r.fed /\ r.consumed = r.fed
    /\ Codec # "none" /\ r.consumed = Len(packed) => got + Gained(r) = plain
    /\ Codec \in {"deflate", "zstd"} /\ r.consumed < r.fed =>
           got + Gained(r) < Upto(packed, r.fed)
    /\ r.n = EOF => GotAll
    /\ r.n = 0 /\ Reader = "lines" /\ InOneGo => GotAll
    /\ r.n = Failed => SingleBlock /\ Codec = "deflate"

(* Each read leaves what the invariant needs: without compression, *)
LEMMA PlainSound ==
    ASSUME IInv, status = "reading", Codec = "none", NEW len, NEW b, Gives(b,
           len)
    PROVE  Sound(PlainRead(b))
<1> DEFINE r == PlainRead(b)
<1>1. /\ packed \in Seq(Nat) /\ Len(packed) \in Nat
      /\ fed \in 0..Len(packed) /\ file \in Nat
      /\ stack \in Stacks /\ Delivered(fileRead, finished, fed)
  BY ReadingFrom
<1>2. Len(packed) = plain /\ (\A i \in 1..plain : packed[i] = i) /\ got = fed
      /\ (Reader = "lines" => plain # 1)
  BY DEF IInv, PackedInv, GotInv, Closed
<1>3. /\ b.n \in Nat \cup {EOF} /\ fed + Units(b) \in 0..Len(packed)
      /\ Units(b) \in Nat
  BY DEF Gives, Units
<1>4. /\ r.n = b.n /\ r.fileRead = b.fileRead /\ r.fed = fed + Units(b)
      /\ r.consumed = fed + Units(b)
  BY <1>1, <1>3 DEF PlainRead, Result, Units, EOF
<1>5. r.finished = b.finished
  BY Zenon DEF PlainRead, Result
<1> HIDE DEF r
<1>6. Gained(r) = Units(b)
  BY <1>3, <1>4 DEF Gained, Units, EOF
<1>7. Upto(packed, r.fed) = r.fed
  BY <1>2, <1>3, <1>4 DEF Upto
<1>8. r.n = EOF => got = plain
  BY <1>2, <1>4 DEF Gives
<1>9. r.n = 0 /\ Reader = "lines" => got = plain
  <2> SUFFICES ASSUME r.n = 0, Reader = "lines" PROVE got = plain
    OBVIOUS
  <2>1. CASE fed = Len(packed)
    BY <1>2, <2>1
  <2>2. CASE SingleBlock
    <3>1. file = 2 /\ file \in {Len(packed) + 1, Len(packed) + 2}
      BY <1>1, <2>2 DEF SingleBlock, Block, Delivered
    <3>2. QED
      BY <1>1, <1>2, <3>1
  <2>3. QED
    BY <1>4, <2>1, <2>2 DEF Gives
<1>10. r.n # Failed /\ r.n \in Nat \cup {EOF, Failed}
  BY <1>3, <1>4 DEF EOF, Failed
<1>11. /\ r.fed \in 0..Len(packed) /\ r.consumed \in 0..r.fed
       /\ got + Gained(r) \in 0..Upto(packed, r.fed)
       /\ got + Gained(r) = r.fed /\ r.consumed = r.fed
  BY <1>1, <1>2, <1>3, <1>4, <1>6, <1>7
<1>12. /\ r.fileRead \in 0..file /\ r.finished \in BOOLEAN
       /\ Delivered(r.fileRead, r.finished, r.fed)
  BY <1>4, <1>5, Zenon DEF Gives
<1>13. Codec \notin {"deflate", "zstd"}
  OBVIOUS
<1>14. QED
  BY <1>8, <1>9, <1>10, <1>11, <1>12, <1>13, Zenon DEF Sound, GotAll, r

(* at the end of the stream below, *)
LEMMA EndedSound ==
    ASSUME IInv, status = "reading", Codec # "none", NEW b, Feeds(b),
           b.n = EOF \/ (Codec = "zstd" /\ fed = consumed /\ b.n = 0)
    PROVE  Sound(Result(EOF, b, fed, consumed))
<1> DEFINE r == Result(EOF, b, fed, consumed)
<1>1. /\ Len(packed) \in Nat /\ fed \in 0..Len(packed) /\ consumed \in 0..fed
      /\ got \in 0..Upto(packed, fed) /\ got \in Nat
      /\ consumed = Len(packed) => got = plain
      /\ Codec \in {"deflate", "zstd"} /\ consumed < fed => got < Upto(packed, fed)
  BY ReadingFrom, UptoTypes DEF IInv, GotInv, Closed
<1>2. /\ r.n = EOF /\ r.fileRead = b.fileRead /\ r.fed = fed
      /\ r.consumed = consumed
  BY DEF Result
<1>3. r.finished = b.finished
  BY Zenon DEF Result
<1> HIDE DEF r
<1>4. Gained(r) = 0 /\ got + Gained(r) = got
  BY <1>1, <1>2 DEF Gained, EOF
<1>5. Units(b) = 0 /\ fed + Units(b) = fed
  BY <1>1 DEF Units
<1>6. GotAll
  BY <1>1 DEF Feeds, GotAll, EOF
<1>7. r.n \in Nat \cup {EOF, Failed} /\ r.n # Failed
  BY <1>2 DEF EOF, Failed
<1>8. /\ r.fileRead \in 0..file /\ r.finished \in BOOLEAN
      /\ Delivered(r.fileRead, r.finished, r.fed)
  BY <1>2, <1>3, <1>5, Zenon DEF Feeds
<1>9. QED
  BY <1>1, <1>2, <1>4, <1>6, <1>7, <1>8, Zenon DEF Sound, r

(* and after a call of a library, whatever its output is called. *)
LEMMA DecompressedSound ==
    ASSUME IInv, status = "reading", Codec # "none", NEW len \in Nat, len > 0,
           NEW b, Feeds(b), b.n # EOF, NEW d, d = Decompressed(fed + b.n, len),
           NEW n, n \in {d.out, EOF, Failed}, n # d.out => d.out = 0,
           n = EOF => GotAll, n = 0 /\ Reader = "lines" /\ InOneGo => GotAll,
           n = Failed => SingleBlock /\ Codec = "deflate"
    PROVE  Sound(Result(n, b, fed + b.n, d.consumed))
<1> DEFINE r == Result(n, b, fed + b.n, d.consumed)
<1>1. Len(packed) \in Nat /\ fed \in 0..Len(packed)
  BY ReadingFrom
<1>2. b.n \in Nat /\ Units(b) = b.n /\ fed + b.n \in fed..Len(packed)
      /\ Delivered(b.fileRead, b.finished, fed + b.n)
  BY DEF Feeds, Units
<1>3. Makes(d, fed + b.n, len)
  BY <1>2, DecompressedIs
<1>4. /\ r.n = n /\ r.fileRead = b.fileRead /\ r.fed = fed + b.n
      /\ r.consumed = d.consumed
  BY DEF Result
<1>5. r.finished = b.finished
  BY Zenon DEF Result
<1> HIDE DEF r
<1>6. Gained(r) = d.out /\ r.n \in Nat \cup {EOF, Failed}
  <2>1. d.out \in Nat
    BY <1>3 DEF Makes
  <2>2. CASE n = d.out
    BY <1>4, <2>1, <2>2 DEF Gained
  <2>3. CASE n # d.out
    BY <1>4, <2>3 DEF Gained, EOF, Failed
  <2>4. QED
    BY <2>2, <2>3
<1>7. r.fed \in 0..Len(packed)
  BY <1>1, <1>2, <1>4
<1>8. /\ r.fileRead \in 0..file /\ r.finished \in BOOLEAN
      /\ Delivered(r.fileRead, r.finished, r.fed)
  BY <1>2, <1>4, <1>5, Zenon DEF Feeds
<1>9. /\ r.consumed \in 0..r.fed /\ got + Gained(r) \in 0..Upto(packed, r.fed)
      /\ r.consumed = Len(packed) => got + Gained(r) = plain
      /\ Codec \in {"deflate", "zstd"} /\ r.consumed < r.fed =>
             got + Gained(r) < Upto(packed, r.fed)
  BY <1>3, <1>4, <1>6, Zenon DEF Makes
<1>10. QED
  BY <1>4, <1>6, <1>7, <1>8, <1>9, Zenon DEF Sound, r

(* A read that gives out nothing has used up all input, without getting to *)
(* anything new; and what has been fed by earlier reads has something new. *)
LEMMA NothingOut ==
    ASSUME IInv, status = "reading", Codec # "none", NEW len \in Nat, len > 0,
           NEW b, Feeds(b), b.n # EOF, NEW d, d = Decompressed(fed + b.n,
           len), d.out = 0
    PROVE  /\ Upto(packed, fed + b.n) = got /\ d.consumed = fed + b.n
           /\ b.n \in Nat
           /\ fed + b.n \in fed..Len(packed)
           /\ fed + b.n = Len(packed) => d.atEnd
           /\ d.atEnd => got = plain
           /\ fed + b.n = Len(packed) => got = plain
           /\ Codec \in {"deflate", "zstd"} => fed = consumed
<1>1. /\ Len(packed) \in Nat /\ fed \in 0..Len(packed)
      /\ consumed \in 0..fed /\ got \in Nat
      /\ Codec \in {"deflate", "zstd"} /\ consumed < fed => got < Upto(packed, fed)
  BY ReadingFrom, UptoTypes DEF IInv, GotInv
<1>2. b.n \in Nat /\ Units(b) = b.n /\ fed + b.n \in fed..Len(packed)
  BY DEF Feeds, Units
<1>3. Makes(d, fed + b.n, len)
  BY <1>2, DecompressedIs
<1>4. /\ Upto(packed, fed + b.n) = got /\ d.consumed = fed + b.n
      /\ fed + b.n = Len(packed) => d.atEnd
      /\ d.atEnd => got = plain
  <2>1. got + d.out = got
    BY <1>1
  <2>2. QED
    BY <1>3, <2>1, Zenon DEF Makes
<1>5. Codec \in {"deflate", "zstd"} => fed = consumed
  <2> SUFFICES ASSUME Codec \in {"deflate", "zstd"}, fed # consumed PROVE FALSE
    OBVIOUS
  <2>1. fed + b.n = fed
    BY <1>1 DEF Feeds
  <2>2. Upto(packed, fed) = got
    BY <1>4, <2>1
  <2>3. QED
    BY <1>1, <2>2
<1>6. QED
  BY <1>2, <1>4, <1>5

(* Deflate never returns 0, and fails only without any input. *)
LEMMA DeflateSound ==
    ASSUME IInv, status = "reading", Codec = "deflate", NEW len \in Nat,
           len > 0,
           NEW b, Feeds(b)
    PROVE  Sound(DeflateRead(len, b))
<1>1. /\ b.n \in Nat \cup {EOF} /\ fed \in Nat /\ Len(packed) \in Nat
      /\ packed \in Seq(Nat)
  BY ReadingFrom DEF Feeds
<1>2. CASE b.n = EOF
  <2>1. DeflateRead(len, b) = Result(EOF, b, fed, consumed)
    BY <1>2 DEF DeflateRead, Decompress, EOF
  <2>2. QED
    BY <1>2, <2>1, EndedSound
<1>3. CASE b.n # EOF
  <2> DEFINE d == Decompressed(fed + b.n, len)
             n == IF d.atEnd /\ d.out = 0 THEN EOF
                  ELSE IF d.out = 0 /\ d.consumed = consumed THEN Failed ELSE d.out
  <2>1. DeflateRead(len, b) = Result(n, b, fed + b.n, d.consumed)
    <3>1. ~(b.n < 0)
      BY <1>1, <1>3
    <3>2. QED
      BY <3>1 DEF DeflateRead, Decompress
  <2> HIDE DEF d
  <2>2. d.out = 0 => /\ Upto(packed, fed + b.n) = got
                     /\ d.consumed = fed + b.n /\ b.n \in Nat
                     /\ fed + b.n \in fed..Len(packed)
                     /\ fed + b.n = Len(packed) => d.atEnd
                     /\ d.atEnd => got = plain
                     /\ fed = consumed
    BY <1>3, NothingOut DEF d
  <2>3. d.out \in Nat
    <3>1. fed + b.n \in fed..Len(packed)
      BY <1>3 DEF Feeds, Units
    <3>2. QED
      BY <3>1, DecompressedIs DEF Makes, d
  <2>4. n \in {d.out, EOF, Failed} /\ (n # d.out => d.out = 0)
    OBVIOUS
  <2>5. n = EOF => GotAll
    BY <2>2, <2>3 DEF EOF, Failed, GotAll
  <2>6. n = Failed => SingleBlock /\ Codec = "deflate"
    <3> SUFFICES ASSUME n = Failed PROVE SingleBlock
      OBVIOUS
    <3>1. d.out = 0 /\ d.consumed = consumed /\ ~d.atEnd
      BY <2>3 DEF EOF, Failed
    <3>2. b.n = 0 /\ fed + b.n = fed /\ fed # Len(packed)
      BY <1>1, <2>2, <3>1
    <3>3. QED
      BY <2>2, <3>1, <3>2 DEF Feeds
  <2>7. n # 0
    <3> SUFFICES ASSUME n = 0 PROVE FALSE
      OBVIOUS
    <3>1. d.out = 0 /\ d.consumed # consumed /\ ~d.atEnd
      BY DEF EOF, Failed
    <3>2. /\ b.n \in Nat /\ b.n # 0 /\ fed + b.n \in fed..Len(packed)
          /\ fed + b.n # Len(packed)
          /\ Upto(packed, fed + b.n) = got
      BY <1>1, <2>2, <3>1
    <3>3. b.n # 1
      BY <3>2 DEF Feeds
    <3> DEFINE a == fed + b.n
    <3>4. /\ a \in 2..Len(packed) /\ a - 2 \in 0..Len(packed)
          /\ fed <= a - 2 /\ fed \in 0..Len(packed)
      BY <1>1, <3>2, <3>3
    <3>5. packed[a] > (IF a = 2 THEN 0 ELSE packed[a - 2])
      BY <3>4 DEF IInv, PackedInv, Plausible
    <3>6. Upto(packed, a) > Upto(packed, a - 2)
      BY <3>4, <3>5 DEF Upto
    <3>7. Upto(packed, fed) <= Upto(packed, a - 2)
      BY <3>4, UptoTypes
    <3>8. /\ got \in Nat /\ got <= Upto(packed, fed)
          /\ Upto(packed, fed) \in Nat /\ Upto(packed, a - 2) \in Nat
      BY <3>4, UptoTypes DEF IInv, GotInv
    <3>9. QED
      BY <3>2, <3>6, <3>7, <3>8
  <2> HIDE DEF n
  <2>8. Sound(Result(n, b, fed + b.n, d.consumed))
    BY <1>3, <2>4, <2>5, <2>6, <2>7, DecompressedSound DEF d
  <2>9. QED
    BY <2>1, <2>8
<1>4. QED
  BY <1>2, <1>3

(* bzip2 and LZMA may return 0. *)
LEMMA BlocksSound ==
    ASSUME IInv, status = "reading", Codec \in {"bzip", "lzma"},
           NEW len \in Nat, len > 0, NEW b, Feeds(b)
    PROVE  Sound(BzRead(len, b)) /\ Sound(LzmaRead(len, b))
<1>1. b.n \in Nat \cup {EOF} /\ ~(Reader = "lines" /\ InOneGo)
  BY DEF Feeds, InOneGo
<1>2. CASE b.n = EOF
  <2>1. BzRead(len, b) = Result(EOF, b, fed, consumed)
    BY <1>2 DEF BzRead, Decompress, EOF
  <2>2. LzmaRead(len, b) = Result(EOF, b, fed, consumed)
    BY <1>2 DEF LzmaRead, Decompress, EOF
  <2>3. QED
    BY <1>2, <2>1, <2>2, EndedSound
<1>3. CASE b.n # EOF
  <2> DEFINE d == Decompressed(fed + b.n, len)
             n == IF d.atEnd /\ d.out = 0 THEN EOF ELSE d.out
  <2>0. ~(b.n < 0)
    BY <1>1, <1>3
  <2>1. BzRead(len, b) = Result(n, b, fed + b.n, d.consumed)
    BY <2>0 DEF BzRead, Decompress
  <2>2. LzmaRead(len, b) = Result(n, b, fed + b.n, d.consumed)
    BY <2>0 DEF LzmaRead, Decompress
  <2> HIDE DEF d
  <2>3. d.out = 0 /\ d.atEnd => got = plain
    BY <1>3, NothingOut DEF d
  <2>4. d.out \in Nat
    <3>1. fed + b.n \in fed..Len(packed)
      BY <1>3 DEF Feeds, Units
    <3>2. QED
      BY <3>1, DecompressedIs DEF Makes, d
  <2>5. n \in {d.out, EOF, Failed} /\ (n # d.out => d.out = 0) /\ n # Failed
    BY <2>4 DEF EOF, Failed
  <2>6. n = EOF => GotAll
    BY <2>3, <2>4 DEF EOF, GotAll
  <2> HIDE DEF n
  <2>7. Sound(Result(n, b, fed + b.n, d.consumed))
    BY <1>1, <1>3, <2>5, <2>6, DecompressedSound DEF d
  <2>8. QED
    BY <2>1, <2>2, <2>7
<1>4. QED
  BY <1>2, <1>3

(* zstd takes an empty refill for the end, as that of a single AES block. *)
LEMMA ZStdSound ==
    ASSUME IInv, status = "reading", Codec = "zstd",
           NEW len \in Nat, len > 0, NEW b, Feeds(b)
    PROVE  Sound(ZStdRead(len, b))
<1>1. /\ b.n \in Nat \cup {EOF} /\ fed \in 0..Len(packed) /\ fed \in Nat
      /\ Len(packed) \in Nat
  BY ReadingFrom DEF Feeds
<1>2. CASE b.n = EOF
  <2>1. ZStdRead(len, b) = Result(EOF, b, fed, consumed)
    BY <1>2 DEF ZStdRead, Decompress, EOF
  <2>2. QED
    BY <1>2, <2>1, EndedSound
<1>3. CASE fed = consumed /\ b.n = 0
  <2>1. ZStdRead(len, b) = Result(EOF, b, fed, consumed)
    BY <1>3 DEF ZStdRead
  <2>2. QED
    BY <1>3, <2>1, EndedSound
<1>4. CASE b.n # EOF /\ ~(fed = consumed /\ b.n = 0)
  <2> DEFINE d == Decompressed(fed + b.n, len)
             n == d.out
  <2>1. ZStdRead(len, b) = Result(n, b, fed + b.n, d.consumed)
    <3>1. ~(b.n < 0)
      BY <1>1, <1>4
    <3>2. QED
      BY <1>4, <3>1 DEF ZStdRead, Decompress
  <2> HIDE DEF d
  <2>2. d.out \in Nat
    <3>1. fed + b.n \in fed..Len(packed)
      BY <1>4 DEF Feeds, Units
    <3>2. QED
      BY <3>1, DecompressedIs DEF Makes, d
  <2>3. n # EOF /\ n # Failed
    BY <2>2 DEF EOF, Failed
  <2>4. n = 0 /\ Reader = "lines" /\ InOneGo => got = plain
    <3> SUFFICES ASSUME n = 0, Reader = "lines", InOneGo, got # plain PROVE FALSE
      OBVIOUS
    <3>1. Cipher = "none"
      BY DEF InOneGo
    <3>2. /\ Upto(packed, fed + b.n) = got /\ b.n \in Nat
          /\ fed + b.n \in fed..Len(packed)
          /\ fed + b.n # Len(packed) /\ fed = consumed
      BY <1>4, NothingOut DEF d
    <3>3. b.n = ZStdInSize
      BY <1>4, <3>1, <3>2 DEF Feeds
    <3>4. Windowed(packed)
      BY DEF IInv, PackedInv
    <3>5. Upto(packed, fed) < Upto(packed, fed + ZStdInSize)
      BY <1>1, <3>2, <3>3, <3>4 DEF Windowed
    <3>6. got \in Nat /\ got <= Upto(packed, fed) /\ Upto(packed, fed) \in Nat
      BY <1>1, UptoTypes DEF IInv, GotInv
    <3>7. QED
      BY <3>2, <3>3, <3>5, <3>6
  <2> HIDE DEF n
  <2>5. n \in {d.out, EOF, Failed} /\ (n # d.out => d.out = 0)
    BY DEF n
  <2>6. Sound(Result(n, b, fed + b.n, d.consumed))
    BY <1>4, <2>3, <2>4, <2>5, DecompressedSound DEF d, GotAll
  <2>7. QED
    BY <2>1, <2>6
<1>5. QED
  BY <1>2, <1>3, <1>4

(* All compressors together. *)
LEMMA ReadSound ==
    ASSUME IInv, status = "reading", NEW len, Asked(len)
    PROVE  Sound(Read(len, Below(len)))
<1> DEFINE b == Below(len)
<1>1. /\ len \in Nat /\ len > 0 /\ stack \in Stacks
      /\ Codec = "none" => Gives(b, len)
      /\ Codec # "none" => Feeds(b)
  <2>1. len \in Nat /\ len > 2
    BY Feeding
  <2>2. QED
    BY <2>1, Feeding, ReadingFrom
<1> HIDE DEF b
<1>2. CASE Codec = "none"
  BY <1>1, <1>2, PlainSound DEF Read, b
<1>3. CASE Codec = "deflate"
  BY <1>1, <1>3, DeflateSound DEF Read, b
<1>4. CASE Codec \in {"bzip", "lzma"}
  BY <1>1, <1>4, BlocksSound DEF Read, b
<1>5. CASE Codec = "zstd"
  BY <1>1, <1>5, ZStdSound DEF Read, b
<1>6. QED
  BY <1>1, <1>2, <1>3, <1>4, <1>5, CodecNames

-----------------------------------------------------------------------------
(* Reading.                                                                *)
LEMMA TakeStep ==
    ASSUME IInv, status = "reading", NEW r, Sound(r), NEW atEof \in BOOLEAN,
           Take(r, atEof),
           atEof /\ r.n # Failed => r.n = EOF \/ (r.n = 0 /\ Reader = "lines")
    PROVE  IInv'
<1>1. /\ fileRead' = r.fileRead /\ finished' = r.finished /\ fed' = r.fed
      /\ consumed' = r.consumed /\ got' = got + Gained(r)
      /\ stack' = stack /\ plain' = plain /\ packed' = packed /\ file' = file
  BY DEF Take, Gained
<1>2. status' = IF r.n = Failed THEN "error" ELSE IF atEof THEN "eof" ELSE "reading"
  BY DEF Take
<1>3. /\ status' \in Closed
      /\ status' \in {"writing", "aborted", "reading", "eof", "error"}
      /\ status \in Closed /\ status' # "writing"
  BY <1>2 DEF Closed
<1>4. /\ Codec' = Codec /\ Cipher' = Cipher /\ Reader' = Reader
      /\ (SingleBlock)' = SingleBlock
      /\ Told' = Told /\ Plausible(packed)' = Plausible(packed)
  BY <1>1 DEF Codec, Cipher, Reader, SingleBlock, Block, Told, Plausible
<1>5. PackedInv'
  <2>1. PackedInv
    BY DEF IInv
  <2>2. QED
    BY <1>1, <1>3, <1>4, <2>1 DEF PackedInv
<1>6. FileInv'
  <2>1. file' \in Nat
    BY <1>1, ReadingFrom
  <2>2. /\ Delivered(r.fileRead, r.finished, r.fed)
        /\ r.fileRead \in 0..file /\ r.finished \in BOOLEAN
    BY Zenon DEF Sound
  <2>3. Delivered(fileRead, finished, fed)'
    BY <1>1, <1>4, <2>2 DEF Delivered
  <2>4. finished' \in BOOLEAN
    BY <1>1, <2>2, Zenon
  <2>5. QED
    BY <1>1, <1>3, <2>1, <2>2, <2>3, <2>4 DEF FileInv
<1>7. GotInv'
  <2>1. Codec' = "none" => got' = fed' /\ consumed' = fed'
    BY <1>1, <1>4 DEF Sound
  <2>2. /\ fed' \in 0..Len(packed') /\ consumed' \in 0..fed'
        /\ got' \in 0..Upto(packed', fed')
    BY <1>1 DEF Sound
  <2>3. Codec' # "none" /\ consumed' = Len(packed') => got' = plain'
    BY <1>1, <1>4 DEF Sound
  <2>4. Codec' \in {"deflate", "zstd"} /\ consumed' < fed' => got' < Upto(packed', fed')
    BY <1>1, <1>4 DEF Sound
  <2>5. QED
    BY <2>1, <2>2, <2>3, <2>4, Zenon DEF GotInv
<1>8. TypeInv'
  BY <1>1, <1>3 DEF IInv, TypeInv
<1>9. InOneGo' => Complete'
  <2> SUFFICES ASSUME InOneGo, status' = "eof", ~(SingleBlock /\ Codec = "zstd")
               PROVE  got' = plain'
    BY <1>4 DEF Complete, InOneGo
  <2>1. r.n # Failed /\ (r.n = EOF \/ (r.n = 0 /\ Reader = "lines"))
    BY <1>2
  <2>2. GotAll
    BY <2>1 DEF Sound
  <2>3. got = plain /\ Gained(r) = 0 /\ got \in Nat
    BY <2>1, <2>2, UptoTypes DEF GotAll, Gained, EOF, IInv, TypeInv
  <2>4. QED
    BY <1>1, <2>3
<1>10. NoException'
  BY <1>2, <1>4 DEF NoException, Sound
<1>11. QED
  BY <1>5, <1>6, <1>7, <1>8, <1>9, <1>10 DEF IInv

(* Each of the readers keeps the invariant. *)
LEMMA CopyToStep ==
    ASSUME IInv, CopyTo
    PROVE  IInv'
<1> DEFINE r == Read(Buffer, Below(Buffer))
<1>1. status = "reading" /\ Take(r, r.n = EOF)
  BY DEF CopyTo
<1>2. Sound(r)
  BY <1>1, ReadSound DEF Asked
<1> HIDE DEF r
<1>3. (r.n = EOF) \in BOOLEAN
  OBVIOUS
<1>4. QED
  BY <1>1, <1>2, <1>3, TakeStep

(* The operation inflate: *)
LEMMA InflateStep ==
    ASSUME IInv, Inflate
    PROVE  IInv'
<1> DEFINE r == Read(CodecChunk, Below(CodecChunk))
<1>1. status = "reading" /\ Reader = "inflate" /\ Take(r, r.n = EOF)
  BY DEF Inflate
<1>2. Sound(r)
  BY <1>1, ReadSound DEF Asked
<1> HIDE DEF r
<1>3. (r.n = EOF) \in BOOLEAN
  OBVIOUS
<1>4. QED
  BY <1>1, <1>2, <1>3, TakeStep

(* BufferedReader takes 0 for the end. *)
LEMMA FillStep ==
    ASSUME IInv, Fill
    PROVE  IInv'
<1> DEFINE r == Read(Buffer, Below(Buffer))
<1>1. status = "reading" /\ Reader = "lines" /\ Take(r, r.n <= 0)
  BY DEF Fill
<1>2. Sound(r)
  BY <1>1, ReadSound DEF Asked
<1> HIDE DEF r
<1>3. (r.n <= 0) \in BOOLEAN
  OBVIOUS
<1>4. r.n <= 0 /\ r.n # Failed => r.n = EOF \/ r.n = 0
  BY <1>2 DEF Sound, EOF, Failed
<1>5. QED
  BY <1>1, <1>2, <1>3, <1>4, TakeStep

-----------------------------------------------------------------------------
(* Theorems.                                                               *)
LEMMA Initially == Init => IInv
<1> SUFFICES ASSUME Init PROVE IInv
  OBVIOUS
<1>1. /\ stack \in Stacks /\ status = "writing" /\ plain = 0
      /\ packed = <<>> /\ file = 0
      /\ fileRead = 0 /\ finished = FALSE /\ fed = 0 /\ consumed = 0 /\ got = 0
  BY DEF Init
<1>2. Len(packed) = 0 /\ packed \in Seq(Nat) /\ Told = 0
  BY <1>1 DEF Told
<1>3. PackedInv
  BY <1>1, <1>2, SizesAssumption
     DEF PackedInv, Rising, Windowed, BlocksEnd, Plausible, Closed
<1>4. finished \in BOOLEAN
  BY <1>1, Zenon
<1>5. FileInv
  BY <1>1, <1>2, <1>4 DEF FileInv, Closed
<1>6. GotInv
  BY <1>1, <1>2 DEF GotInv, Upto, Closed
<1>7. TypeInv /\ Complete /\ NoException
  BY <1>1, SizesAssumption DEF TypeInv, Complete, NoException
<1>8. QED
  BY <1>3, <1>5, <1>6, <1>7 DEF IInv

(* Every step keeps the invariant. *)
LEMMA Inductive == IInv /\ [Next]_vars => IInv'
<1> SUFFICES ASSUME IInv, [Next]_vars PROVE IInv'
  OBVIOUS
<1>1. ASSUME NEW n \in 1..Buffer, Write(n) PROVE IInv'
  BY <1>1, WriteStep
<1>2. CASE Deflate
  <2>1. PICK n \in 1..CodecChunk : Write(n)
    BY <1>2 DEF Deflate
  <2>2. QED
    BY <2>1, WriteStep
<1>3. CASE Close
  BY <1>3, CloseStep
<1>4. CASE CloseThrows
  BY <1>4, CloseThrowsStep
<1>5. CASE CopyTo
  BY <1>5, CopyToStep
<1>6. CASE Inflate
  BY <1>6, InflateStep
<1>7. CASE Fill
  BY <1>7, FillStep
<1>8. CASE UNCHANGED vars
  BY <1>8 DEF vars, readVars, IInv, TypeInv, PackedInv, FileInv, GotInv,
              Complete, NoException, Delivered, Plausible, Told, SingleBlock,
              Block, InOneGo, Cipher, Codec, Reader
<1>9. QED
  BY <1>1, <1>2, <1>3, <1>4, <1>5, <1>6, <1>7, <1>8 DEF Next

(* So it always holds. *)
LEMMA Always == Spec => []IInv
<1>1. QED
  BY Initially, Inductive, PTL DEF Spec

(* The types follow from it. *)
LEMMA Types == IInv => TypeOK
<1> SUFFICES ASSUME IInv PROVE TypeOK
  OBVIOUS
<1>1. /\ stack \in Stacks /\ plain \in 0..MaxPlain /\ packed \in Seq(Nat)
      /\ Rising(packed)
      /\ Len(packed) <= MaxPacked /\ Told <= plain
      /\ status \in {"writing", "aborted", "reading", "eof", "error"}
      /\ MaxPlain \in Nat /\ MaxPacked \in Nat
  BY SizesAssumption DEF IInv, TypeInv, PackedInv
<1>2. Len(packed) \in Nat /\ Upto(packed, Len(packed)) <= plain
  BY <1>1, ToldIsLast
<1>3. \A i \in 0..Len(packed) : Upto(packed, i) \in 0..plain
  <2>1. \A i \in 0..Len(packed) : Upto(packed, i) \in Nat
    BY <1>1 DEF Upto
  <2>2. \A i \in 0..Len(packed) : Upto(packed, i) <= Upto(packed, Len(packed))
    BY <1>1, <1>2, RisingFar
  <2>3. Upto(packed, Len(packed)) \in Nat
    BY <1>2, <2>1
  <2>4. QED
    BY <1>1, <1>2, <2>1, <2>2, <2>3
<1>4. packed \in Seq(0..MaxPlain)
  <2>1. \A i \in 1..Len(packed) : packed[i] \in 0..MaxPlain
    BY <1>1, <1>2, <1>3 DEF Upto
  <2>2. QED
    BY <1>1, <1>2, <2>1
<1>5. file \in 0..(MaxPacked + 2) /\ fileRead \in 0..file
  <2>1. CASE status \in Closed
    BY <1>1, <1>2, <2>1, CodecNames DEF IInv, FileInv, Delivered
  <2>2. CASE status \notin Closed
    BY <1>1, <1>2, <2>2 DEF IInv, FileInv
  <2>3. QED
    BY <2>1, <2>2
<1>6. fed \in 0..Len(packed) /\ consumed \in 0..fed /\ got \in 0..plain
  BY <1>1, <1>2, <1>3 DEF IInv, GotInv
<1>7. finished \in BOOLEAN
  BY DEF IInv, FileInv
<1>8. QED
  BY <1>1, <1>4, <1>5, <1>6, <1>7, Zenon DEF TypeOK

(* The variables have their types: the reader never gets more than was     *)
(* written, and no decompressor consumes more than it was given.           *)
THEOREM TypeCorrect == Spec => []TypeOK
<1>1. QED
  BY Always, Types, PTL

(* No read of a sound file throws, except for small files under AES and    *)
(* Deflate, whatever is written in whichever portions and whatever reads it*)
(* (DeflateInputStream::read()).                                           *)
THEOREM NeverThrows == Spec => []NoException
<1>1. IInv => NoException
  BY DEF IInv
<1>2. QED
  BY <1>1, Always, PTL

(* A file whose reader does not take a read of 0 for its end, or never gets*)
(* one before, is got back complete: InputStream::copyTo() and inflate     *)
(* through all stacks, BufferedReader through those of InOneGo.            *)
THEOREM CompleteInOneGo == Spec => [](InOneGo => Complete)
<1>1. IInv => (InOneGo => Complete)
  BY DEF IInv
<1>2. QED
  BY <1>1, Always, PTL

(* So all files are, where lines are only read through such stacks.        *)
THEOREM ReadsComplete ==
    ASSUME LinesInOneGo
    PROVE  Spec => []Complete
<1>1. TypeInv => InOneGo
  BY DEF TypeInv, LinesInOneGo, InOneGo, Reader, Codec, Cipher
<1>2. IInv => Complete
  BY <1>1 DEF IInv
<1>3. QED
  BY <1>2, Always, PTL
=============================================================================
