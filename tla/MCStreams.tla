------------------------------ MODULE MCStreams ------------------------------
(* Instances of Streams.                                                   *)
EXTENDS Streams

Ciphers == {"none", "blowfish", "aes"}
Codecs == {"none", "deflate", "bzip", "lzma", "zstd"}

(* All repositories read what is copied; index files and lists are read    *)
(* where the decompressor never returns 0 in between.                      *)
GoodStacks ==
    (Ciphers \X Codecs \X {"copy"})
    \cup (Ciphers \X {"none", "deflate"} \X {"lines"})
    \cup {<<"none", "zstd", "lines">>}
    \cup ({"none"} \X (Codecs \ {"none"}) \X {"inflate"})

(* Where it has to collect a block that is longer than what it gets.       *)
BlockStacks ==
    (Ciphers \X {"bzip"} \X {"lines"}) \cup {<<"blowfish", "zstd", "lines">>}
=============================================================================
