------------------------------- MODULE Streams -------------------------------
(***************************************************************************)
(* A file of the repository from the first write() to the last read(): the *)
(* stacks of streams that ShabackOutputStream and ShabackInputStream build *)
(* from compression, encryption and a file (src/src/lib), and the ways of  *)
(* reading one to its end: InputStream::copyTo() for what is restored, and *)
(* BufferedReader for index files and block lists.  The operations deflate *)
(* and inflate do the same with standard input and output as the file.     *)
(*                                                                         *)
(* Nothing is ever reordered, so that counting is enough.  The unit is one *)
(* Blowfish block, half an AES block.  A compressed unit is the number of  *)
(* plain units that can be decompressed from the file up to it.  zlib,     *)
(* bzip2, lzma, zstd and OpenSSL are external.                             *)
(***************************************************************************)
EXTENDS Integers, Sequences

CONSTANTS
    Stacks,         \* <<encryption, compression, reader>>
    MaxPlain,       \* bound: the plain units of a file
    MaxPacked,      \* bound: the compressed units of a file
    MaxStreamed,    \* bound: the units a compressor gives out in a call
    MaxBlock,       \* bound: the units of a compressed block
    Buffer,         \* the buffers of copyTo() and BufferedReader, 8 kB
    CodecChunk,     \* DEFLATE_CHUNK_SIZE etc., 16 kB
    CipherChunk,    \* AES_CHUNK_SIZE and BLOWFISH_CHUNK_SIZE, 2 kB and 1 kB
    ZStdInSize      \* ZSTD_DStreamInSize(), a little more than a block

ASSUME SizesAssumption ==
    /\ MaxPlain \in Nat /\ MaxPacked \in Nat /\ MaxStreamed \in Nat /\ MaxBlock \in Nat
    /\ Buffer \in Nat /\ Buffer % 2 = 0 /\ Buffer > 2
    /\ CodecChunk \in Nat /\ CodecChunk >= Buffer
    /\ CipherChunk \in Nat /\ CipherChunk % 2 = 0 /\ CipherChunk > 2
    /\ ZStdInSize \in Nat /\ ZStdInSize > MaxBlock /\ ZStdInSize >= CipherChunk
ASSUME StacksAssumption ==
    /\ Stacks \subseteq {"none", "blowfish", "aes"}
        \X {"none", "deflate", "bzip", "lzma", "zstd"} \X {"copy", "lines", "inflate"}
    /\ \A s \in Stacks : s[3] = "inflate" => s[1] = "none" /\ s[2] # "none"

VARIABLES
    stack,
    status,     \* "writing", "aborted", "reading", "eof" or "error"
    plain,      \* what has been written, in plain units
    packed,     \* the compressed units that it has given to the cipher
    file,       \* the units in the file
    fileRead,   \* the units read from the file
    finished,   \* AesInputStream::finished
    fed,        \* the compressed units given to the decompressor,
    consumed,   \* those that it has consumed: avail_in = fed - consumed
    got         \* the plain units that the reader has got

readVars == <<fileRead, finished, fed, consumed, got>>
vars == <<stack, status, plain, packed, file, readVars>>

Cipher == stack[1]
Codec == stack[2]
Reader == stack[3]

TypeOK ==
    /\ stack \in Stacks
    /\ status \in {"writing", "aborted", "reading", "eof", "error"}
    /\ plain \in 0..MaxPlain
    /\ packed \in Seq(0..MaxPlain) /\ Len(packed) <= MaxPacked
    /\ file \in 0..(MaxPacked + 2) /\ fileRead \in 0..file
    /\ finished \in BOOLEAN
    /\ fed \in 0..Len(packed) /\ consumed \in 0..fed
    /\ got \in 0..plain

Init ==
    /\ stack \in Stacks /\ status = "writing"
    /\ plain = 0 /\ packed = <<>> /\ file = 0
    /\ fileRead = 0 /\ finished = FALSE /\ fed = 0 /\ consumed = 0 /\ got = 0

-----------------------------------------------------------------------------
(* Writing.                                                                *)
Least(m, n) == IF m <= n THEN m ELSE n
Block == IF Cipher = "aes" THEN 2 ELSE 1

(* EVP_EncryptUpdate() gives whole blocks only, EVP_CipherFinal_ex() pads  *)
(* the rest, or one more block.                                            *)
Enciphered(n) == IF Cipher = "none" THEN n ELSE (n \div Block) * Block
Padded(n) == IF Cipher = "none" THEN n ELSE Enciphered(n) + Block

(* What the compressors may give out when they have got "all" plain units: *)
(* Deflate and LZMA go on all the time, bzip2 and zstd wait for a block.   *)
Told == IF packed = <<>> THEN 0 ELSE packed[Len(packed)]

Streamed(all) ==
    UNION {{s \in [1..n -> Told..all] : \A i \in 2..n : s[i - 1] <= s[i]} :
            n \in 0..MaxStreamed}
Blocks(all) ==
    IF all = Told THEN {<<>>}
    ELSE {[i \in 1..n |-> IF i = n THEN all ELSE Told] :
            n \in 1..Least(MaxBlock, all - Told + 1)}

Emitted(all) ==
    CASE Codec = "none" -> {[i \in 1..(all - Told) |-> Told + i]}
      [] Codec \in {"deflate", "lzma"} -> Streamed(all)
      [] Codec \in {"bzip", "zstd"} -> {<<>>} \cup Blocks(all)

(* finish() ends the stream.                                               *)
Ended ==
    CASE Codec = "none" -> {<<>>}
      [] Codec = "deflate" -> {Append(s, plain) : s \in Streamed(plain)}
      [] Codec = "lzma" -> {s \o <<plain, plain>> : s \in Streamed(plain)}
      [] Codec = "bzip" -> {Append(s, plain) : s \in Blocks(plain)}
      [] Codec = "zstd" -> IF Told = plain THEN {<<plain>>} ELSE Blocks(plain)

(* The unit is so large that two of Deflate that add nothing stand for more*)
(* than a chunk, which it never needs for its tables.                      *)
Plausible(s) ==
    Codec = "deflate" => \A i \in 2..Len(s) : s[i] > (IF i = 2 THEN 0 ELSE s[i - 2])

(* ShabackOutputStream::write()                                            *)
Write(n) ==
    /\ status = "writing" /\ plain + n <= MaxPlain
    /\ plain' = plain + n
    /\ \E s \in Emitted(plain + n) : packed' = packed \o s
    /\ Len(packed') <= MaxPacked /\ Plausible(packed')
    /\ file' = Enciphered(Len(packed'))
    /\ UNCHANGED <<stack, status, readVars>>

(* The operation deflate                                                   *)
Deflate == Reader = "inflate" /\ \E n \in 1..CodecChunk : Write(n)

(* finish() goes on while a call fills the chunk, and bzip2 must not be    *)
(* called again after the end of its stream.                               *)
OnceMore(s) == Codec = "bzip" /\ Len(s) % CodecChunk = 0

(* ShabackOutputStream::close(): the compressor first, then the cipher.    *)
(* A file that is read line by line is a list of hashes or an index file;  *)
(* its first line alone has more than an AES block.                        *)
ClosePaddedNot ==
    /\ status = "writing" /\ (Reader = "lines" => plain # 1)
    /\ status' = "reading"
    /\ \E s \in Ended : ~OnceMore(s) /\ packed' = packed \o s
    /\ Len(packed') <= MaxPacked /\ Plausible(packed')
    /\ file' = Enciphered(Len(packed'))
    /\ UNCHANGED <<stack, plain, readVars>>

Close ==
    /\ status = "writing" /\ (Reader = "lines" => plain # 1)
    /\ status' = "reading"
    /\ \E s \in Ended : ~OnceMore(s) /\ packed' = packed \o s
    /\ Len(packed') <= MaxPacked /\ Plausible(packed')
    /\ file' = Padded(Len(packed'))
    /\ UNCHANGED <<stack, plain, readVars>>

(* The exception, which the destructors of the streams cause once more.    *)
CloseThrows ==
    /\ status = "writing" /\ (Reader = "lines" => plain # 1)
    /\ status' = "aborted"
    /\ \E s \in Ended : OnceMore(s) /\ packed' = packed \o s
    /\ Len(packed') <= MaxPacked
    /\ file' = Enciphered(Len(packed'))
    /\ UNCHANGED <<stack, plain, readVars>>

-----------------------------------------------------------------------------
(* Reading.  Each read(b, len) returns a number of units, or EOF.          *)
EOF == -1
Failed == -2    \* an exception

FileRead(len) == IF fileRead = file THEN EOF ELSE Least(len, file - fileRead)

(* fread() waits until it has got all, or the end.                         *)
StandardRead(len) == IF fileRead + len <= file THEN len
                     ELSE IF fileRead < file THEN file - fileRead ELSE EOF

(* EVP_DecryptUpdate() keeps the last block it knows, which may be padding.*)
Deciphered(n) ==
    IF n > 0 /\ n % Block = 0 THEN n - Block ELSE (n \div Block) * Block

LastBlock == Len(packed) - Deciphered(file)

DecryptFinal ==
    IF file # Padded(Len(packed)) THEN Failed
    ELSE IF LastBlock = 0 THEN EOF ELSE LastBlock

Under(n, r, end) ==
    [n |-> n, fileRead |-> fileRead + (IF r > 0 THEN r ELSE 0), finished |-> end]

CipherReadUnfinished(len) ==
    LET r == FileRead(Least(len, CipherChunk)) IN
    IF r # EOF
    THEN Under(Deciphered(fileRead + r) - Deciphered(fileRead), r, finished)
    ELSE Under(DecryptFinal, r, FALSE)

CipherRead(len) ==
    LET r == FileRead(Least(len, CipherChunk)) IN
    IF r # EOF
    THEN Under(Deciphered(fileRead + r) - Deciphered(fileRead), r, finished)
    ELSE Under(IF finished THEN EOF ELSE DecryptFinal, r, TRUE)

AesRead(len) == CipherRead(len)
BlowfishRead(len) == CipherRead(len)

(* The stream below the decompressor.                                      *)
In(len) ==
    CASE Reader = "inflate" -> Under(StandardRead(len), StandardRead(len), finished)
      [] Cipher = "none" /\ Reader # "inflate" -> Under(FileRead(len), FileRead(len), finished)
      [] Cipher = "blowfish" -> BlowfishRead(len)
      [] Cipher = "aes" -> AesRead(len)

(* The libraries decompress until their input is used up or the output is  *)
(* full; zlib and zstd go on until something does not fit. All keep the end*)
(* of the stream until all output has been fetched.                        *)
Ready(n) == (IF n = 0 THEN 0 ELSE packed[n]) - got

Full(n, len) ==
    IF Codec \in {"deflate", "zstd"} THEN Ready(n) > len ELSE Ready(n) >= len

Reached(avail, len) ==
    CHOOSE n \in consumed..avail :
        /\ n = Least(avail, Len(packed)) \/ Full(n, len)
        /\ \A k \in consumed..(n - 1) : ~Full(k, len)

Decompressed(avail, len) ==
    LET n == Reached(avail, len)
        out == Least(len, Ready(n))
    IN [out |-> out,
        consumed |-> IF n = Len(packed) /\ Ready(n) > len THEN n - 1 ELSE n,
        atEnd |-> n = Len(packed) /\ Ready(n) = out]

(* One read() of a decompressor: its result, and the state it leaves.      *)
RefillLate(size) ==
    IF fed # consumed THEN In(size) ELSE Under(0, 0, finished)

Refill(size) ==
    IF fed = consumed THEN In(size) ELSE Under(0, 0, finished)

Result(n, below, avail, used) ==
    [n |-> n, fileRead |-> below.fileRead, finished |-> below.finished,
     fed |-> avail, consumed |-> used]

Decompress(len, below, Returned(_)) ==
    IF below.n < 0 THEN Result(below.n, below, fed, consumed)
    ELSE LET d == Decompressed(fed + below.n, len) IN
         Result(Returned(d), below, fed + below.n, d.consumed)

(* inflate() without input and output is Z_BUF_ERROR.                      *)
DeflateRead(len, below) ==
    Decompress(len, below,
               LAMBDA d : IF d.atEnd /\ d.out = 0 THEN EOF
                          ELSE IF d.out = 0 /\ d.consumed = consumed THEN Failed
                          ELSE d.out)

BzReadNothingIsEOF(len, below) ==
    Decompress(len, below, LAMBDA d : IF d.out = 0 THEN EOF ELSE d.out)

BzRead(len, below) ==
    Decompress(len, below,
               LAMBDA d : IF d.atEnd /\ d.out = 0 THEN EOF ELSE d.out)

LzmaRead(len, below) ==
    Decompress(len, below,
               LAMBDA d : IF d.atEnd /\ d.out = 0 THEN EOF ELSE d.out)

(* A refill of nothing is taken for the end.                               *)
ZStdRead(len, below) ==
    IF fed = consumed /\ below.n = 0
    THEN Result(EOF, below, fed, consumed)
    ELSE Decompress(len, below, LAMBDA d : d.out)

(* ShabackInputStream::read()                                              *)
PlainRead(below) ==
    LET avail == IF below.n < 0 THEN fed ELSE fed + below.n
    IN Result(below.n, below, avail, avail)

Below(len) ==
    CASE Codec = "none" -> In(len)
      [] Codec = "zstd" -> Refill(ZStdInSize)
      [] OTHER -> Refill(Least(len, CodecChunk))

Read(len, below) ==
    CASE Codec = "none" -> PlainRead(below)
      [] Codec = "deflate" -> DeflateRead(len, below)
      [] Codec = "bzip" -> BzRead(len, below)
      [] Codec = "lzma" -> LzmaRead(len, below)
      [] Codec = "zstd" -> ZStdRead(len, below)

Take(r, atEof) ==
    /\ fileRead' = r.fileRead /\ finished' = r.finished
    /\ fed' = r.fed /\ consumed' = r.consumed
    /\ got' = got + (IF r.n > 0 THEN r.n ELSE 0)
    /\ status' = IF r.n = Failed THEN "error"
                 ELSE IF atEof THEN "eof" ELSE "reading"
    /\ UNCHANGED <<stack, plain, packed, file>>

(* InputStream::copyTo(): a result of 0 is no end.                         *)
CopyTo ==
    /\ status = "reading" /\ Reader = "copy"
    /\ \E below \in {Below(Buffer)} : \E r \in {Read(Buffer, below)} :
        Take(r, r.n = EOF)

(* The operation inflate: nor is it here.                                  *)
Inflate ==
    /\ status = "reading" /\ Reader = "inflate"
    /\ \E below \in {Below(CodecChunk)} : \E r \in {Read(CodecChunk, below)} :
        Take(r, r.n = EOF)

(* BufferedReader::read(): it is.                                          *)
Fill ==
    /\ status = "reading" /\ Reader = "lines"
    /\ \E below \in {Below(Buffer)} : \E r \in {Read(Buffer, below)} :
        Take(r, r.n <= 0)

Next ==
    \/ (Reader # "inflate" /\ \E n \in 1..Buffer : Write(n)) \/ Deflate
    \/ Close \/ CloseThrows \/ CopyTo \/ Inflate \/ Fill

Spec == Init /\ [][Next]_vars /\ WF_vars(CopyTo \/ Inflate \/ Fill)

-----------------------------------------------------------------------------
(* Properties.                                                             *)

(* A file that is a single AES block: the first read of the cipher below   *)
(* returns 0, because that block may be padding.                           *)
SingleBlock == Cipher = "aes" /\ file = Block

(* Whoever has read to the end has got all that was written, whatever the  *)
(* sizes of chunks, blocks and buffers.  Small files under AES and zstd    *)
(* are an exception: they read as empty (ZStdInputStream.cpp:69).          *)
Complete ==
    status = "eof" /\ ~(SingleBlock /\ Codec = "zstd") => got = plain

(* No read of a sound file throws.  Small files under AES and Deflate are  *)
(* an exception: inflate() without input fails (DeflateInputStream.cpp:71).*)
NoException == status = "error" => SingleBlock /\ Codec = "deflate"

(* "-1 if not even a single byte could be read, the exact number of bytes  *)
(* read otherwise" (InputStream.h:60): BufferedReader relies on it.        *)
ReadsBack == status = "eof" => got = plain

(* Although reads may return 0, reading comes to an end.                   *)
ReadingEnds == status = "reading" ~> status \in {"eof", "error"}
=============================================================================
