----------------------------- MODULE OpenProofs -----------------------------
(***************************************************************************)
(* Proofs that a repository opens to all alike, for any processes, command *)
(* lines, configuration files and digits: its directories are there, all   *)
(* who have it open agree with repo.properties, and its password fits.     *)
(***************************************************************************)
EXTENDS SetupProofs, FiniteSetTheorems, SequenceTheorems

(* The inductive invariant, beside that of SetupProofs.                    *)
Opens == {"check", "using", "lock"} \cup Migrating

(* The directories: whoever makes them still has those to make that there  *)
(* are not, and a repository that has properties has all of them.          *)
Ready(format) ==
    Range(TopDirs) \subseteq dirs /\ Range(Buckets(format)) \subseteq dirs \cup unmade
DirsOf(p) ==
    /\ pc[p] = "mkdirs" =>
           /\ left[p] \in Seq(AllDirs)
           /\ Range(TopDirs) \subseteq dirs \cup Range(left[p])
           /\ Range(Buckets(config[p].repoFormat)) \subseteq dirs \cup unmade \cup Range(left[p])
    /\ pc[p] \in Creating => Ready(config[p].repoFormat)
    /\ pc[p] \in Opens => Ready(repository[p].repoFormat)
DirsInv ==
    /\ DOMAIN left = Procs /\ DOMAIN config = Procs /\ DOMAIN repository = Procs
    /\ Opened => Ready(Settings(props).repoFormat)
    /\ \A p \in Procs : DirsOf(p)

(* A hash in the file password is one of the encryption e.                 *)
Fits(e) == passwd \notin {None, Empty} /\ passwd = HashPassword(e, passwd.password)

(* Only a repository of version 2 is migrated.                             *)
VersionInv ==
    ~old =>
        /\ Opened => Settings(props).version = "3"
        /\ \A p \in Procs :
               /\ pc[p] \in Opens => repository[p].version = "3"
               /\ pc[p] \notin {"lock"} \cup Migrating

(* All that is ever written to it says the same, and nobody writes the     *)
(* password of an encrypted one.                                           *)
Plain(settings, e) ==
    settings.encryption = e /\ settings.compression = "Deflate" /\ settings.repoFormat = "2-2"
OldIs(e) ==
    /\ Opened => Plain(Settings(props), e)
    /\ \A p \in Procs : pc[p] \in Opens => Plain(repository[p], e)
    /\ e = "Blowfish" => Fits(e) /\ \A p \in Procs : pc[p] \notin {"openPasswd", "writePasswd"}
OldAlike == old => \E e \in {"None", "Blowfish"} : OldIs(e)

(* A new one has one creator at a time, who finds it as the last one has   *)
(* left it: the properties are written once, and then the password.        *)
NewAt(p) ==
    /\ pc[p] = "openProps" => props = None
    /\ pc[p] = "writeProps" => props = Empty
    /\ pc[p] \in {"openProps", "writeProps", "openPasswd"} => passwd = None
    /\ pc[p] = "writePasswd" => passwd = Empty
    /\ pc[p] \in {"askPasswd", "openPasswd", "writePasswd"} => props # None
    /\ pc[p] \in Opens => Opened /\ repository[p] = Settings(props)
CreatedBy(p) ==
    /\ pc[p] \in {"askPasswd", "openPasswd", "writePasswd"} /\ props = Properties("3", config[p])
    /\ pc[p] = "askPasswd" => passwd = None
NewAlike ==
    ~old /\ ~contested =>
        /\ \A p, q \in Procs : pc[p] \in Creating /\ pc[q] \in Creating => p = q
        /\ props = None => passwd = None
        /\ \A p \in Procs : NewAt(p)
        /\ Opened /\ ~halfway /\ Settings(props).encryption # "None" =>
               Fits(Settings(props).encryption) \/ \E p \in Procs : CreatedBy(p)

AInv == DirsInv /\ VersionInv /\ OldAlike /\ NewAlike

-----------------------------------------------------------------------------
(* What mkdir() is called for.                                             *)
LEMMA SeqOfSet ==
    ASSUME NEW S, IsFiniteSet(S)
    PROVE  SetToSeq(S) \in Seq(S) /\ Range(SetToSeq(S)) = S
<1> DEFINE n == Cardinality(S)
           s == SetToSeq(S)
<1>1. n \in Nat /\ ExistsBijection(1..n, S)
  BY FS_CardinalityType
<1>2. PICK f : f \in Bijection(1..n, S)
  BY <1>1 DEF ExistsBijection
<1>3. f \in [1..n -> S] /\ IsInjective(f)
  BY <1>2 DEF Bijection, Injection
<1>4. s \in [1..n -> S] /\ IsInjective(s)
  BY <1>3 DEF SetToSeq
<1>5. s \in Injection(1..n, S)
  BY <1>4 DEF Injection
<1>6. IsFiniteSet(1..n) /\ Cardinality(1..n) = n
  BY <1>1, FS_Interval
<1>7. s \in Surjection(1..n, S)
  BY <1>5, <1>6, FS_Injection
<1>8. QED
  BY <1>1, <1>4, <1>7 DEF Surjection, Range

LEMMA NamesFinite ==
    IsFiniteSet([1..2 -> Digits]) /\ IsFiniteSet([1..3 -> Digits])
<1>1. IsFiniteSet(Digits)
  BY SetupAssumption
<1>2. IsFiniteSet(Digits \X Digits)
  BY <1>1, FS_Product
<1>3. IsFiniteSet((Digits \X Digits) \X Digits)
  BY <1>1, <1>2, FS_Product
<1>4. IsFiniteSet([1..2 -> Digits])
  <2> DEFINE f == [d \in Digits \X Digits |-> [i \in 1..2 |-> IF i = 1 THEN d[1] ELSE d[2]]]
  <2>1. f \in [Digits \X Digits -> [1..2 -> Digits]]
    OBVIOUS
  <2>2. ASSUME NEW s \in [1..2 -> Digits]
        PROVE  \E d \in Digits \X Digits : f[d] = s
    <3>1. <<s[1], s[2]>> \in Digits \X Digits
      OBVIOUS
    <3>2. f[<<s[1], s[2]>>] = s
      BY <3>1
    <3>3. QED
      BY <3>1, <3>2
  <2> HIDE DEF f
  <2>3. f \in Surjection(Digits \X Digits, [1..2 -> Digits])
    BY <2>1, <2>2 DEF Surjection
  <2>4. QED
    BY <1>2, <2>3, FS_Surjection
<1>5. IsFiniteSet([1..3 -> Digits])
  <2> DEFINE D == (Digits \X Digits) \X Digits
             f == [d \in D |-> [i \in 1..3 |-> IF i = 1 THEN d[1][1] ELSE IF i = 2 THEN d[1][2] ELSE d[2]]]
  <2>1. f \in [D -> [1..3 -> Digits]]
    OBVIOUS
  <2>2. ASSUME NEW s \in [1..3 -> Digits]
        PROVE  \E d \in D : f[d] = s
    <3>1. <<<<s[1], s[2]>>, s[3]>> \in D
      OBVIOUS
    <3>2. f[<<<<s[1], s[2]>>, s[3]>>] = s
      BY <3>1
    <3>3. QED
      BY <3>1, <3>2
  <2>3. IsFiniteSet(D)
    BY <1>3
  <2> HIDE DEF f, D
  <2>4. f \in Surjection(D, [1..3 -> Digits])
    BY <2>1, <2>2 DEF Surjection
  <2>5. QED
    BY <2>3, <2>4, FS_Surjection
<1>6. QED
  BY <1>4, <1>5

LEMMA Division ==
    ASSUME NEW m \in Nat \ {0}, NEW q \in Nat, NEW r \in 0..(m - 1)
    PROVE  (q * m + r) \div m = q /\ (q * m + r) % m = r
OBVIOUS

LEMMA Below ==
    ASSUME NEW m \in Nat \ {0}, NEW q \in Nat, NEW r \in 0..(m - 1), NEW n \in Nat, q < n
    PROVE  q * m + r \in 0..(n * m - 1)
<1>1. q * m + m <= n * m
  OBVIOUS
<1>2. QED
  BY <1>1

LEMMA BucketOfHash ==
    ASSUME NEW format, NEW hash \in [1..4 -> Digits]
    PROVE  HashValueToFile(format, hash) \in Range(Buckets(format))
<1>1. CASE format = "3"
  <2> DEFINE names == SetToSeq([1..3 -> Digits])
  <2>1. SubSeq(hash, 1, 3) \in [1..3 -> Digits]
    <3>1. SubSeq(hash, 1, 3) = [i \in 1..3 |-> hash[i]]
      OBVIOUS
    <3>2. [i \in 1..3 |-> hash[i]] \in [1..3 -> Digits]
      OBVIOUS
    <3>3. QED
      BY <3>1, <3>2, Zenon
  <2>2. names \in Seq([1..3 -> Digits]) /\ Range(names) = [1..3 -> Digits]
    BY NamesFinite, SeqOfSet
  <2>3. Buckets(format) = [k \in DOMAIN names |-> <<"files">> \o names[k]]
    BY <1>1 DEF Buckets
  <2> HIDE DEF names
  <2>4. PICK k \in DOMAIN names : names[k] = SubSeq(hash, 1, 3)
    BY <2>1, <2>2 DEF Range
  <2>5. Buckets(format)[k] = <<"files">> \o SubSeq(hash, 1, 3) /\ k \in DOMAIN Buckets(format)
    BY <2>3, <2>4
  <2>6. QED
    BY <1>1, <2>5 DEF Range, HashValueToFile
<1>2. CASE format # "3"
  <2> DEFINE level == SetToSeq([1..2 -> Digits])
             n == Len(level)
             level0(k) == <<"files">> \o level[(k - 1) \div (n + 1) + 1]
             level1(k) == (k - 1) % (n + 1)
  <2>1. level \in Seq([1..2 -> Digits]) /\ Range(level) = [1..2 -> Digits]
    BY NamesFinite, SeqOfSet
  <2>2. Buckets(format) =
           [k \in 1..(n * (n + 1)) |->
               IF level1(k) = 0 THEN level0(k) ELSE level0(k) \o level[level1(k)]]
    BY <1>2 DEF Buckets
  <2> DEFINE first == [i \in 1..2 |-> hash[i]]
             second == [i \in 1..2 |-> hash[i + 2]]
  <2>3. first \in [1..2 -> Digits] /\ second \in [1..2 -> Digits]
    OBVIOUS
  <2> HIDE DEF level, first, second
  <2>4. PICK a \in 1..n : level[a] = first
    BY <2>1, <2>3 DEF Range
  <2>5. PICK b \in 1..n : level[b] = second
    BY <2>1, <2>3 DEF Range
  <2>6. n \in Nat
    BY <2>1
  <2> USE DEF first, second
  <2> DEFINE k == (a - 1) * (n + 1) + b + 1
  <2>7. (k - 1) \div (n + 1) = a - 1 /\ level1(k) = b
    <3> HIDE DEF n
    <3>1. a - 1 \in Nat /\ b \in 0..((n + 1) - 1) /\ n + 1 \in Nat \ {0}
      BY <2>6
    <3>2. k - 1 = (a - 1) * (n + 1) + b
      BY <2>6
    <3>3. ((a - 1) * (n + 1) + b) \div (n + 1) = a - 1 /\ ((a - 1) * (n + 1) + b) % (n + 1) = b
      BY <3>1, Division
    <3>4. QED
      BY <3>2, <3>3
  <2>8. k \in 1..(n * (n + 1))
    <3> HIDE DEF n
    <3>1. a - 1 \in Nat /\ b \in 0..((n + 1) - 1) /\ n + 1 \in Nat \ {0} /\ a - 1 < n
      BY <2>6
    <3>2. (a - 1) * (n + 1) + b \in 0..(n * (n + 1) - 1)
      BY <2>6, <3>1, Below
    <3>3. n * (n + 1) \in Nat
      BY <2>6
    <3>4. QED
      BY <3>2, <3>3
  <2>9. Buckets(format)[k] = (<<"files">> \o first) \o second /\ k \in DOMAIN Buckets(format)
    <3>1. (k - 1) \div (n + 1) + 1 = a
      BY <2>7, <2>6
    <3>2. level0(k) = <<"files">> \o first
      BY <3>1, <2>4
    <3>3. level1(k) # 0 /\ level[level1(k)] = second
      BY <2>7, <2>5
    <3> HIDE DEF level0, level1, n, k, first, second
    <3>4. QED
      BY <2>2, <2>8, <3>2, <3>3
  <2>10. (<<"files">> \o first) \o second = <<"files">> \o SubSeq(hash, 1, 4)
    OBVIOUS
  <2>11. QED
    BY <1>2, <2>9, <2>10 DEF Range, HashValueToFile
<1>3. QED
  BY <1>1, <1>2

LEMMA RangeOfConcat ==
    ASSUME NEW S, NEW s \in Seq(S), NEW t \in Seq(S)
    PROVE  s \o t \in Seq(S) /\ Range(s \o t) = Range(s) \cup Range(t)
<1>1. /\ s \o t \in Seq(S) /\ Len(s \o t) = Len(s) + Len(t)
      /\ \A i \in 1..Len(s) + Len(t) :
             (s \o t)[i] = IF i <= Len(s) THEN s[i] ELSE t[i - Len(s)]
  BY ConcatProperties
<1>2. Len(s) \in Nat /\ Len(t) \in Nat
  OBVIOUS
<1>3. \A i \in 1..Len(t) : (s \o t)[Len(s) + i] = t[i] /\ Len(s) + i \in 1..Len(s) + Len(t)
  BY <1>1, <1>2
<1>4. \A i \in 1..Len(s) : (s \o t)[i] = s[i] /\ i \in 1..Len(s) + Len(t)
  BY <1>1, <1>2
<1>5. Range(s) \cup Range(t) \subseteq Range(s \o t)
  <2>0. DOMAIN (s \o t) = 1..Len(s) + Len(t)
    BY <1>1
  <2>1. ASSUME NEW i \in 1..Len(s) PROVE s[i] \in Range(s \o t)
    <3>1. (s \o t)[i] \in Range(s \o t)
      BY <1>4, <2>0 DEF Range
    <3>2. QED
      BY <1>4, <3>1
  <2>2. ASSUME NEW i \in 1..Len(t) PROVE t[i] \in Range(s \o t)
    <3>1. (s \o t)[Len(s) + i] \in Range(s \o t)
      BY <1>3, <2>0 DEF Range
    <3>2. QED
      BY <1>3, <3>1
  <2>3. Range(s) = {s[i] : i \in 1..Len(s)} /\ Range(t) = {t[i] : i \in 1..Len(t)}
    BY DEF Range
  <2>4. QED
    BY <2>1, <2>2, <2>3
<1>6. Range(s \o t) \subseteq Range(s) \cup Range(t)
  <2> SUFFICES ASSUME NEW i \in 1..Len(s) + Len(t)
               PROVE  (s \o t)[i] \in Range(s) \cup Range(t)
    BY <1>1 DEF Range
  <2>1. CASE i <= Len(s)
    BY <1>1, <1>2, <2>1 DEF Range
  <2>2. CASE ~(i <= Len(s))
    <3>1. i - Len(s) \in 1..Len(t)
      BY <1>2, <2>2
    <3>2. QED
      BY <1>1, <2>2, <3>1 DEF Range
  <2>3. QED
    BY <2>1, <2>2
<1>7. QED
  BY <1>1, <1>5, <1>6

LEMMA RangeOfTail ==
    ASSUME NEW S, NEW s \in Seq(S), s # <<>>
    PROVE  Tail(s) \in Seq(S) /\ Range(s) = {Head(s)} \cup Range(Tail(s))
<1>1. /\ Tail(s) \in Seq(S) /\ Len(Tail(s)) = Len(s) - 1 /\ Len(s) \in Nat \ {0}
      /\ \A i \in 1..Len(Tail(s)) : Tail(s)[i] = s[i + 1]
  OBVIOUS
<1>2. Range(Tail(s)) \subseteq Range(s)
  BY <1>1 DEF Range
<1>3. Head(s) \in Range(s) /\ Head(s) = s[1]
  BY <1>1 DEF Range
<1>4. ASSUME NEW i \in 1..Len(s) PROVE s[i] \in {Head(s)} \cup Range(Tail(s))
  <2>1. CASE i = 1
    BY <1>3, <2>1
  <2>2. CASE i # 1
    <3>1. i - 1 \in 1..Len(Tail(s)) /\ Tail(s)[i - 1] = s[i]
      BY <1>1, <2>2
    <3>2. DOMAIN Tail(s) = 1..Len(Tail(s))
      BY <1>1
    <3>3. Tail(s)[i - 1] \in Range(Tail(s))
      BY <3>1, <3>2 DEF Range
    <3>4. QED
      BY <3>1, <3>3
  <2>3. QED
    BY <2>1, <2>2
<1>5. QED
  BY <1>1, <1>2, <1>3, <1>4 DEF Range

LEMMA BucketsSeq ==
    ASSUME NEW format
    PROVE  TopDirs \o Buckets(format) \in Seq(AllDirs)
           /\ Range(TopDirs \o Buckets(format)) = Range(TopDirs) \cup Range(Buckets(format))
<1>1. Buckets(format) \in {Buckets("2-2"), Buckets("3")}
  BY DEF Buckets
<1>2. Range(Buckets(format)) \subseteq AllDirs
  BY <1>1 DEF AllDirs
<1>3. \E m \in Nat : /\ DOMAIN Buckets(format) = 1..m
                     /\ Buckets(format) = [k \in 1..m |-> Buckets(format)[k]]
  <2>1. CASE format = "3"
    <3> DEFINE names == SetToSeq([1..3 -> Digits])
    <3>1. names \in Seq([1..3 -> Digits])
      BY NamesFinite, SeqOfSet
    <3>2. Buckets(format) = [k \in DOMAIN names |-> <<"files">> \o names[k]]
      BY <2>1 DEF Buckets
    <3> HIDE DEF names
    <3>3. DOMAIN names = 1..Len(names) /\ Len(names) \in Nat
      BY <3>1
    <3>4. QED
      BY <3>2, <3>3
  <2>2. CASE format # "3"
    <3> DEFINE level == SetToSeq([1..2 -> Digits])
               n == Len(level)
               bucket(k) == IF (k - 1) % (n + 1) = 0 THEN <<"files">> \o level[(k - 1) \div (n + 1) + 1]
                            ELSE (<<"files">> \o level[(k - 1) \div (n + 1) + 1]) \o level[(k - 1) % (n + 1)]
    <3>1. level \in Seq([1..2 -> Digits])
      BY NamesFinite, SeqOfSet
    <3>2. Buckets(format) = [k \in 1..(n * (n + 1)) |-> bucket(k)]
      BY <2>2 DEF Buckets
    <3>3. n * (n + 1) \in Nat
      BY <3>1
    <3> HIDE DEF bucket, n
    <3>4. QED
      BY <3>2, <3>3
  <2>3. QED
    BY <2>1, <2>2
<1>4. Buckets(format) \in Seq(AllDirs)
  <2>1. PICK m \in Nat : DOMAIN Buckets(format) = 1..m
                         /\ Buckets(format) = [k \in 1..m |-> Buckets(format)[k]]
    BY <1>3
  <2>2. \A k \in 1..m : Buckets(format)[k] \in AllDirs
    BY <1>2, <2>1 DEF Range
  <2>3. Buckets(format) \in [1..m -> AllDirs]
    BY <2>1, <2>2
  <2>4. QED
    BY <2>3, SeqDef
<1>5. TopDirs \in Seq(AllDirs)
  <2>1. Range(TopDirs) \subseteq AllDirs
    BY DEF AllDirs
  <2>2. TopDirs \in [1..5 -> Range(TopDirs)]
    BY DEF TopDirs, Range
  <2>3. TopDirs \in [1..5 -> AllDirs]
    BY <2>1, <2>2
  <2>4. QED
    BY <2>3, SeqDef
<1>6. QED
  BY <1>4, <1>5, RangeOfConcat

-----------------------------------------------------------------------------
(* What is written to repo.properties and what is read from it.            *)
LEMMA ReadBack ==
    ASSUME NEW s
    PROVE  /\ Properties("3", s) \notin {None, Empty}
           /\ Settings(Properties("3", s)).version = "3"
           /\ Settings(Properties("3", s)).encryption = EncryptionByName(EncryptionToName(s.encryption))
           /\ Settings(Properties("3", s)).compression = CompressionByName(CompressionToName(s.compression))
           /\ Settings(Properties("3", s)).repoFormat = IF s.repoFormat = "3" THEN "3" ELSE "2-2"
<1>1. Properties("3", s).version # "none" /\ Properties("3", s).version # ""
  BY DEF Properties
<1>2. None.version = "none" /\ Empty.version = ""
  BY DEF None, Empty
<1>3. QED
  BY <1>1, <1>2 DEF Settings, GetProperty, Properties, RepoFormatByName, RepoFormatToName

LEMMA EncryptionReadBack ==
    ASSUME NEW c, EncryptionByName(EncryptionToName(c)) # "None"
    PROVE  /\ c # "None"
           /\ EncryptionByName(EncryptionToName(c)) = "Blowfish" <=> c = "Blowfish"
BY DEF EncryptionByName, EncryptionToName

LEMMA HashFits ==
    ASSUME NEW e, NEW c, NEW password, NEW hash, e = "Blowfish" <=> c = "Blowfish",
           hash = HashPassword(c, password)
    PROVE  hash \notin {None, Empty} /\ hash = HashPassword(e, hash.password)
<1>1. hash.version = "password" /\ hash.password = password
  BY DEF HashPassword
<1>2. hash \notin {None, Empty}
  <2>1. None.version = "none" /\ Empty.version = ""
    BY DEF None, Empty
  <2>2. QED
    BY <1>1, <2>1
<1>3. QED
  BY <1>1, <1>2 DEF HashPassword

LEMMA PlainReadBack ==
    ASSUME NEW s, NEW e \in {"None", "Blowfish"}, Plain(s, e)
    PROVE  Plain(Settings(Properties("3", s)), e)
BY ReadBack DEF Plain, EncryptionByName, EncryptionToName, CompressionByName, CompressionToName

LEMMA V2ReadBack ==
    ASSUME NEW e \in {"None", "Blowfish"}
    PROVE  V2Properties(e) \notin {None, Empty} /\ Plain(Settings(V2Properties(e)), e)
<1>1. V2Properties(e).version # "none" /\ V2Properties(e).version # ""
  BY DEF V2Properties
<1>2. None.version = "none" /\ Empty.version = ""
  BY DEF None, Empty
<1>3. /\ GetProperty(V2Properties(e), "version") = "2" /\ GetProperty(V2Properties(e), "repoFormat") = ""
      /\ GetProperty(V2Properties(e), "compression") = "Deflate"
      /\ GetProperty(V2Properties(e), "encryption") = e
  <2>1. DOMAIN V2Properties(e) = {"version", "compression", "encryption"}
    BY DEF V2Properties
  <2>2. "repoFormat" \notin DOMAIN V2Properties(e)
    BY <2>1
  <2>3. QED
    BY <2>1, <2>2 DEF GetProperty, V2Properties
<1>4. /\ EncryptionByName(e) = e /\ CompressionByName("Deflate") = "Deflate"
      /\ RepoFormatByName("") = "2-2"
  BY DEF RepoFormatByName, EncryptionByName, CompressionByName
<1>5. QED
  BY <1>1, <1>2, <1>3, <1>4 DEF Plain, Settings

LEMMA NoneIsNotEmpty == None # Empty
<1>1. None.version = "none" /\ Empty.version = ""
  BY DEF None, Empty
<1>2. QED
  BY <1>1

(* All that matters of the format is whether it is "3".                    *)
LEMMA SameBuckets ==
    ASSUME NEW f, NEW g, f = "3" <=> g = "3"
    PROVE  Buckets(f) = Buckets(g)
BY DEF Buckets

-----------------------------------------------------------------------------
LEMMA InitAInv ==
    ASSUME Init
    PROVE  AInv
<1>1. /\ config = [p \in Procs |-> Defaults] /\ repository = [p \in Procs |-> NoSettings]
      /\ left = [p \in Procs |-> <<>>] /\ pc = [p \in Procs |-> "off"]
      /\ unmade = {} /\ contested = FALSE /\ halfway = FALSE
  BY Zenon DEF Init
<1>2. \A p \in Procs : pc[p] \notin {"mkdirs"} \cup Creating \cup Opens \cup {"lock"} \cup Migrating
  BY <1>1 DEF Creating, Opens, Migrating
<1>3. CASE old = FALSE /\ props = None /\ passwd = None
  <2>1. DirsInv
    BY <1>1, <1>2, <1>3 DEF DirsInv, DirsOf, Opened
  <2>2. VersionInv /\ OldAlike
    BY <1>2, <1>3 DEF VersionInv, OldAlike, Opened
  <2>3. NewAlike
    BY <1>2, <1>3 DEF NewAlike, NewAt, Opened, Creating
  <2>4. QED
    BY <2>1, <2>2, <2>3 DEF AInv
<1>4. ASSUME old = TRUE, dirs = Range(TopDirs) \cup Range(Buckets("2-2")),
             NEW e \in {"None", "Blowfish"}, props = V2Properties(e),
             passwd = IF e = "None" THEN None ELSE HashPassword(e, Load.password)
      PROVE  AInv
  <2>1. Opened /\ Plain(Settings(props), e)
    BY <1>4, V2ReadBack DEF Opened
  <2>2. DirsInv
    BY <1>1, <1>2, <1>4, <2>1 DEF DirsInv, DirsOf, Ready, Plain
  <2>3. VersionInv /\ NewAlike
    BY <1>4 DEF VersionInv, NewAlike
  <2>4. e = "Blowfish" => Fits(e)
    BY <1>4, HashFits DEF Fits
  <2>5. OldIs(e)
    BY <1>2, <2>1, <2>4 DEF OldIs, Creating
  <2>6. OldAlike
    BY <2>5 DEF OldAlike
  <2>7. QED
    BY <2>2, <2>3, <2>6 DEF AInv
<1>5. QED
  BY <1>3, <1>4, Zenon DEF Init

-----------------------------------------------------------------------------
(* Steps.                                                                  *)
settings == <<props, passwd, old, contested>>
OthersStay(p) ==
    \A q \in Procs \ {p} :
        /\ pc'[q] = pc[q] /\ left'[q] = left[q]
        /\ config'[q] = config[q] /\ repository'[q] = repository[q]
DomainsStay ==
    DOMAIN left' = Procs /\ DOMAIN config' = Procs /\ DOMAIN repository' = Procs
Grows == dirs \subseteq dirs' /\ dirs \cup unmade \subseteq dirs' \cup unmade'

LEMMA DirsStep ==
    ASSUME DirsInv, NEW p \in Procs, OthersStay(p), DomainsStay, Grows, DirsOf(p)',
           (Opened => Ready(Settings(props).repoFormat))'
    PROVE  DirsInv'
<1>1. ASSUME NEW q \in Procs \ {p} PROVE DirsOf(q)'
  <2>1. DirsOf(q)
    BY DEF DirsInv
  <2>2. QED
    BY <2>1 DEF OthersStay, Grows, DirsOf, Ready
<1>2. QED
  BY <1>1 DEF DirsInv, DomainsStay

(* Steps of a process that leave the repository as it is, and lead it      *)
(* neither to make something nor to open it.                               *)
LEMMA QuietStep ==
    ASSUME AInv, NEW p \in Procs,
           UNCHANGED <<dirs, unmade, left, config, repository, settings>>,
           halfway => halfway', \A q \in Procs \ {p} : pc'[q] = pc[q],
           pc'[p] \notin Creating \cup {"mkdirs"},
           pc'[p] \in Opens => pc[p] \in Opens,
           pc'[p] \in {"lock"} \cup Migrating => old,
           CreatedBy(p) => halfway'
    PROVE  AInv'
<1> USE DEF AInv, settings
<1>1. DirsInv'
  <2>1. DirsOf(p)'
    BY DEF DirsInv, DirsOf, Ready
  <2>2. (Opened => Ready(Settings(props).repoFormat))'
    BY DEF DirsInv, Ready, Opened
  <2>3. QED
    BY <2>1, <2>2, DirsStep DEF DirsInv, OthersStay, DomainsStay, Grows
<1>2. VersionInv'
  BY DEF VersionInv, Opened
<1>3. OldAlike'
  <2>1. ASSUME NEW e \in {"None", "Blowfish"}, OldIs(e) PROVE OldIs(e)'
    <3>1. Fits(e)' = Fits(e) /\ Opened' = Opened
      BY DEF Fits, Opened
    <3>2. QED
      BY <2>1, <3>1 DEF OldIs, Creating
  <2>2. QED
    BY <2>1 DEF OldAlike
<1>4. NewAlike'
  <2> SUFFICES ASSUME ~old, ~contested PROVE NewAlike'
    BY DEF NewAlike
  <2>1. \A a, b \in Procs : pc'[a] \in Creating /\ pc'[b] \in Creating => a = b
    BY DEF NewAlike
  <2>2. ASSUME NEW q \in Procs PROVE NewAt(q)'
    <3>1. NewAt(q)
      BY DEF NewAlike
    <3>2. QED
      BY <3>1 DEF NewAt, Opened, Creating
  <2>3. Opened' /\ ~halfway' /\ Settings(props').encryption # "None" =>
            Fits(Settings(props).encryption)' \/ \E q \in Procs : CreatedBy(q)'
    <3> SUFFICES ASSUME Opened, ~halfway', Settings(props).encryption # "None",
                        ~Fits(Settings(props).encryption)
                 PROVE  \E q \in Procs : CreatedBy(q)'
      BY DEF Fits, Opened
    <3>1. PICK q \in Procs : CreatedBy(q)
      BY DEF NewAlike
    <3>2. q # p
      BY <3>1
    <3>3. QED
      BY <3>1, <3>2 DEF CreatedBy
  <2>4. QED
    BY <2>1, <2>2, <2>3 DEF NewAlike
<1>5. QED
  BY <1>1, <1>2, <1>3, <1>4

LEMMA QuietActions ==
    ASSUME AInv, TypeInv, NEW p \in Procs,
           \/ CheckPassword(p) \/ Use(p) \/ LockShared(p) \/ SkipRoot(p) \/ OpenIndexFile(p)
           \/ WriteEntries(p) \/ FinishIndexFile(p) \/ UnlockShared(p) \/ LockExclusive(p)
           \/ UnlockExclusive(p) \/ Die(p) \/ CleanLocks(p)
    PROVE  AInv'
<1> DEFINE Quiet == /\ UNCHANGED <<dirs, unmade, left, config, repository, settings>>
                    /\ halfway => halfway'
                    /\ \A q \in Procs \ {p} : pc'[q] = pc[q]
           Leads == /\ pc'[p] \notin Creating \cup {"mkdirs"}
                    /\ pc'[p] \in Opens => pc[p] \in Opens
                    /\ pc'[p] \in {"lock"} \cup Migrating => old
                    /\ CreatedBy(p) => halfway'
<1>1. pc[p] \in {"lock"} \cup Migrating => old
  BY DEF AInv, VersionInv
<1>2. Quiet
  <2> USE DEF Goes, Goto, TypeInv, disk, local, history, settings
  <2>1. CASE Use(p)
    BY <2>1 DEF Use
  <2>2. CASE LockShared(p) \/ SkipRoot(p)
    BY <2>2 DEF LockShared, SkipRoot
  <2>3. CASE OpenIndexFile(p)
    BY <2>3 DEF OpenIndexFile
  <2>4. CASE WriteEntries(p) \/ FinishIndexFile(p)
    BY <2>4 DEF WriteEntries, FinishIndexFile
  <2>5. CASE UnlockShared(p) \/ LockExclusive(p) \/ UnlockExclusive(p)
    BY <2>5 DEF UnlockShared, LockExclusive, UnlockExclusive
  <2>6. CASE Die(p)
    BY <2>6 DEF Die
  <2>7. CASE CleanLocks(p)
    BY <2>7 DEF CleanLocks
  <2>8. CASE CheckPassword(p)
    <3>1. /\ UNCHANGED <<disk, config, repository, left, rootFiles, rootFile, fd, written, history>>
          /\ \E x : Goes(p, "check", x)
      BY <2>8 DEF CheckPassword
    <3>2. QED
      BY <3>1
  <2>9. QED
    BY <2>1, <2>2, <2>3, <2>4, <2>5, <2>6, <2>7, <2>8
<1>3. ASSUME CheckPassword(p) PROVE Leads
  <2>1. pc[p] = "check" /\ pc'[p] \in {"ended", "using", "lock"}
        /\ (pc'[p] = "lock" => repository[p].version # "3")
    BY <1>3 DEF CheckPassword, Goes, Goto, TypeInv
  <2>2. pc'[p] = "lock" => old
    BY <2>1 DEF AInv, VersionInv, Opens
  <2>3. QED
    BY <2>1, <2>2 DEF Opens, Creating, CreatedBy, Migrating
<1>4. ASSUME Use(p) PROVE Leads
  BY <1>4 DEF Use, Goes, Goto, TypeInv, Opens, Creating, CreatedBy, Migrating
<1>5. ASSUME LockShared(p) \/ UnlockShared(p) \/ LockExclusive(p) \/ UnlockExclusive(p) PROVE Leads
  <2>1. pc[p] \in {"lock"} \cup Migrating /\ pc'[p] \in Migrating \cup {"ended"}
    BY <1>5 DEF LockShared, UnlockShared, LockExclusive, UnlockExclusive, Goes, Goto, TypeInv, Migrating
  <2>2. QED
    BY <1>1, <2>1 DEF Opens, Creating, CreatedBy, Migrating
<1>6. ASSUME SkipRoot(p) \/ OpenIndexFile(p) \/ WriteEntries(p) \/ FinishIndexFile(p) PROVE Leads
  <2>1. pc[p] \in Migrating /\ pc'[p] \in Migrating
    BY <1>6 DEF SkipRoot, OpenIndexFile, WriteEntries, FinishIndexFile, Goes, Goto, TypeInv, Migrating
  <2>2. QED
    BY <1>1, <2>1 DEF Opens, Creating, CreatedBy, Migrating
<1>7. ASSUME Die(p) PROVE Leads
  BY <1>7 DEF Die, Goto, TypeInv, Opens, Creating, CreatedBy, Migrating
<1>8. ASSUME CleanLocks(p) PROVE Leads
  BY <1>8 DEF CleanLocks, local, TypeInv, Opens, Creating, CreatedBy, Migrating
<1>9. Leads
  BY <1>3, <1>4, <1>5, <1>6, <1>7, <1>8
<1>10. QED
  BY <1>2, <1>9, QuietStep

(* Steps before repo.properties is looked for.                             *)
LEMMA EarlyStep ==
    ASSUME AInv, NEW p \in Procs, UNCHANGED <<settings, halfway>>, OthersStay(p),
           pc[p] \notin Creating \cup Opens, pc'[p] \notin Creating \cup Opens
    PROVE  VersionInv' /\ OldAlike' /\ NewAlike'
<1> USE DEF AInv, settings, OthersStay
<1>1. VersionInv'
  BY DEF VersionInv, Opened, Opens
<1>2. OldAlike'
  <2>1. ASSUME NEW e \in {"None", "Blowfish"}, OldIs(e) PROVE OldIs(e)'
    <3>1. Fits(e)' = Fits(e) /\ Opened' = Opened
      BY DEF Fits, Opened
    <3>2. QED
      BY <2>1, <3>1 DEF OldIs, Creating
  <2>2. QED
    BY <2>1 DEF OldAlike
<1>3. NewAlike'
  <2> SUFFICES ASSUME ~old, ~contested PROVE NewAlike'
    BY DEF NewAlike
  <2>1. \A a, b \in Procs : pc'[a] \in Creating /\ pc'[b] \in Creating => a = b
    BY DEF NewAlike
  <2>2. ASSUME NEW q \in Procs PROVE NewAt(q)'
    <3>1. NewAt(q)
      BY DEF NewAlike
    <3>2. QED
      BY <3>1 DEF NewAt, Opened, Creating
  <2>3. Opened' /\ ~halfway' /\ Settings(props').encryption # "None" =>
            Fits(Settings(props).encryption)' \/ \E q \in Procs : CreatedBy(q)'
    <3> SUFFICES ASSUME Opened, ~halfway, Settings(props).encryption # "None",
                        ~Fits(Settings(props).encryption)
                 PROVE  \E q \in Procs : CreatedBy(q)'
      BY DEF Fits, Opened
    <3>1. PICK q \in Procs : CreatedBy(q)
      BY DEF NewAlike
    <3>2. q # p
      BY <3>1 DEF CreatedBy, Creating
    <3>3. QED
      BY <3>1, <3>2 DEF CreatedBy
  <2>4. QED
    BY <2>1, <2>2, <2>3 DEF NewAlike
<1>4. QED
  BY <1>1, <1>2, <1>3

LEMMA StartStep ==
    ASSUME AInv, TypeInv, NEW p \in Procs, Start(p)
    PROVE  AInv'
<1> USE DEF AInv
<1>1. /\ UNCHANGED <<settings, halfway, dirs, unmade, left, repository>> /\ OthersStay(p)
      /\ pc[p] = "off" /\ pc'[p] \in {"ended", "init", "open"} /\ DomainsStay
  BY DEF Start, Goto, TypeInv, settings, disk, history, OthersStay, DomainsStay, DirsInv
<1>2. VersionInv' /\ OldAlike' /\ NewAlike'
  BY <1>1, EarlyStep DEF Creating, Opens, Migrating
<1>3. DirsInv'
  <2>1. DirsOf(p)'
    BY <1>1 DEF DirsOf, Creating, Opens, Migrating
  <2>2. (Opened => Ready(Settings(props).repoFormat))'
    BY <1>1 DEF DirsInv, Ready, Opened, settings
  <2>3. QED
    BY <1>1, <2>1, <2>2, DirsStep DEF Grows
<1>4. QED
  BY <1>2, <1>3

LEMMA CheckEmptyStep ==
    ASSUME AInv, TypeInv, NEW p \in Procs, CheckEmpty(p)
    PROVE  AInv'
<1> USE DEF AInv
<1>1. /\ UNCHANGED <<settings, halfway, dirs, unmade, config, repository>> /\ OthersStay(p)
      /\ pc[p] = "init" /\ pc'[p] \in {"ended", "mkdirs"} /\ DomainsStay
      /\ pc'[p] = "mkdirs" => left'[p] = TopDirs \o Buckets(config[p].repoFormat)
  BY DEF CheckEmpty, Goes, Goto, TypeInv, settings, disk, history, OthersStay, DomainsStay, DirsInv
<1>2. VersionInv' /\ OldAlike' /\ NewAlike'
  BY <1>1, EarlyStep DEF Creating, Opens, Migrating
<1>3. DirsInv'
  <2>1. DirsOf(p)'
    BY <1>1, BucketsSeq DEF DirsOf, Creating, Opens, Migrating
  <2>2. (Opened => Ready(Settings(props).repoFormat))'
    BY <1>1 DEF DirsInv, Ready, Opened, settings
  <2>3. QED
    BY <1>1, <2>1, <2>2, DirsStep DEF Grows
<1>4. QED
  BY <1>2, <1>3

(* A directory that has been tried is there, or mkdir() has failed; in the *)
(* first five it may not.                                                  *)
LEMMA MakeDirStep ==
    ASSUME AInv, TypeInv, NEW p \in Procs, MakeDir(p) \/ MakeDirFails(p)
    PROVE  AInv'
<1> USE DEF AInv
<1> DEFINE dir == Head(left[p])
<1>1. /\ UNCHANGED <<settings, halfway, config, repository>> /\ OthersStay(p)
      /\ pc[p] = "mkdirs" /\ pc'[p] \in {"ended", "mkdirs"} /\ DomainsStay
      /\ left[p] # <<>> /\ left'[p] = Tail(left[p])
      /\ \/ dirs' = dirs \cup {dir} /\ unmade' = unmade \ {dir}
         \/ /\ dirs' = dirs /\ unmade' = unmade \cup {dir}
            /\ pc'[p] = "mkdirs" => dir \notin Range(TopDirs)
  <2>1. CASE MakeDir(p)
    BY <2>1 DEF MakeDir, TypeInv, settings, OthersStay, DomainsStay, DirsInv
  <2>2. CASE MakeDirFails(p)
    BY <2>2 DEF MakeDirFails, Goto, TypeInv, settings, disk, OthersStay, DomainsStay, DirsInv
  <2>3. QED
    BY <2>1, <2>2
<1>2. VersionInv' /\ OldAlike' /\ NewAlike'
  BY <1>1, EarlyStep DEF Creating, Opens, Migrating
<1>3. DirsOf(p)
  BY DEF DirsInv
<1>4. left'[p] \in Seq(AllDirs) /\ Range(left[p]) = {dir} \cup Range(left'[p])
  BY <1>1, <1>3, RangeOfTail DEF DirsOf
<1>5. Grows
  BY <1>1 DEF Grows
<1>6. DirsOf(p)'
  BY <1>1, <1>3, <1>4 DEF DirsOf, Creating, Opens, Migrating
<1>7. (Opened => Ready(Settings(props).repoFormat))'
  BY <1>1, <1>5 DEF DirsInv, Ready, Opened, settings, Grows
<1>8. QED
  BY <1>1, <1>2, <1>5, <1>6, <1>7, DirsStep

AskPropsTo(p) == IF props = None THEN "openProps" ELSE "askPasswd"

LEMMA AskPropsStep ==
    ASSUME AInv, TypeInv, OldInv, NEW p \in Procs, AskProps(p)
    PROVE  AInv'
<1> USE DEF AInv
<1>1. /\ UNCHANGED <<dirs, unmade, props, passwd, left, config, repository, old, halfway>>
      /\ pc[p] = "mkdirs" /\ left[p] = <<>> /\ pc' = [pc EXCEPT ![p] = AskPropsTo(p)]
  BY DEF AskProps, Goes, Goto, disk, AskPropsTo
<1>2. OthersStay(p) /\ DomainsStay /\ Grows /\ pc'[p] = AskPropsTo(p) /\ pc'[p] \in Creating
  BY <1>1 DEF OthersStay, DomainsStay, DirsInv, TypeInv, Grows, AskPropsTo, Creating
<1>3. ~contested' => ~contested /\ \A q \in Procs \ {p} : pc[q] \notin Creating
  BY Zenon DEF AskProps
<1>4. DirsInv'
  <2>1. Range(left[p]) = {}
    BY <1>1 DEF Range
  <2>2. DirsOf(p)
    BY DEF DirsInv
  <2>3. DirsOf(p)'
    BY <1>1, <1>2, <2>1, <2>2 DEF DirsOf, Ready, Creating, Opens, Migrating
  <2>4. (Opened => Ready(Settings(props).repoFormat))'
    BY <1>1 DEF DirsInv, Ready, Opened
  <2>5. QED
    BY <1>2, <2>3, <2>4, DirsStep
<1>5. VersionInv'
  BY <1>1, <1>2 DEF VersionInv, OthersStay, Opened, Creating, Opens, Migrating
<1>6. OldAlike'
  <2>1. old => pc'[p] = "askPasswd"
    BY <1>2 DEF OldInv, AskPropsTo
  <2>2. ASSUME old, NEW e \in {"None", "Blowfish"}, OldIs(e) PROVE OldIs(e)'
    <3>1. Fits(e)' = Fits(e) /\ Opened' = Opened
      BY <1>1 DEF Fits, Opened
    <3>2. QED
      BY <1>1, <1>2, <2>1, <2>2, <3>1 DEF OldIs, OthersStay, Opens, Migrating
  <2>3. QED
    BY <1>1, <2>2 DEF OldAlike
<1>7. NewAlike'
  <2> SUFFICES ASSUME ~old, ~contested' PROVE NewAlike'
    BY <1>1 DEF NewAlike
  <2>1. \A a, b \in Procs : pc'[a] \in Creating /\ pc'[b] \in Creating => a = b
    BY <1>2, <1>3 DEF OthersStay
  <2>2. ASSUME NEW q \in Procs PROVE NewAt(q)'
    <3>1. NewAt(q) /\ (props = None => passwd = None)
      BY <1>3 DEF NewAlike
    <3>2. CASE q # p
      BY <1>1, <1>2, <3>1, <3>2 DEF NewAt, Opened, OthersStay
    <3>3. CASE q = p
      BY <1>1, <1>2, <3>1, <3>3 DEF NewAt, AskPropsTo, Opens, Migrating
    <3>4. QED
      BY <3>2, <3>3
  <2>3. Opened' /\ ~halfway' /\ Settings(props').encryption # "None" =>
            Fits(Settings(props).encryption)'
    <3> SUFFICES ASSUME Opened, ~halfway, Settings(props).encryption # "None"
                 PROVE  Fits(Settings(props).encryption)
      BY <1>1 DEF Fits, Opened
    <3>1. ~\E q \in Procs : CreatedBy(q)
      BY <1>1, <1>3 DEF CreatedBy, Creating
    <3>2. QED
      BY <1>3, <3>1 DEF NewAlike
  <2>4. QED
    BY <1>1, <1>3, <2>1, <2>2, <2>3 DEF NewAlike
<1>8. QED
  BY <1>4, <1>5, <1>6, <1>7

LEMMA WritePropsStep ==
    ASSUME AInv, TypeInv, OldInv, NEW p \in Procs, OpenProps(p) \/ WriteProps(p)
    PROVE  AInv'
<1> USE DEF AInv
<1>1. /\ UNCHANGED <<dirs, unmade, passwd, left, config, repository, old, contested, halfway>>
      /\ \/ pc[p] = "openProps" /\ pc'[p] = "writeProps" /\ props' = Empty
         \/ pc[p] = "writeProps" /\ pc'[p] = "askPasswd" /\ props' = Properties("3", config[p])
  BY DEF OpenProps, WriteProps, Goes, Goto, history, TypeInv
<1>2. OthersStay(p) /\ DomainsStay /\ Grows
  BY <1>1 DEF OpenProps, WriteProps, Goes, Goto, OthersStay, DomainsStay, DirsInv, TypeInv, Grows
<1>3. ~old /\ ~old'
  BY <1>1 DEF OldInv
<1>4. Opened' => pc[p] = "writeProps" /\ props' = Properties("3", config[p])
  BY <1>1 DEF Opened
<1>5. DirsInv'
  <2>1. DirsOf(p) /\ Ready(config[p].repoFormat)
    BY <1>1 DEF DirsInv, DirsOf, Creating
  <2>2. DirsOf(p)'
    BY <1>1, <2>1 DEF DirsOf, Ready, Creating, Opens, Migrating
  <2>3. (Opened => Ready(Settings(props).repoFormat))'
    <3> SUFFICES ASSUME Opened' PROVE Ready(Settings(props).repoFormat)'
      OBVIOUS
    <3>1. Settings(props').repoFormat = "3" <=> config[p].repoFormat = "3"
      BY <1>4, ReadBack
    <3>2. Buckets(Settings(props').repoFormat) = Buckets(config[p].repoFormat)
      BY <3>1, SameBuckets
    <3>3. QED
      BY <1>1, <2>1, <3>2 DEF Ready
  <2>4. QED
    BY <1>2, <2>2, <2>3, DirsStep
<1>6. VersionInv'
  <2>1. Opened' => Settings(props').version = "3"
    BY <1>4, ReadBack
  <2>2. QED
    BY <1>1, <1>2, <1>3, <2>1 DEF VersionInv, OthersStay, Opens, Migrating
<1>7. OldAlike'
  BY <1>3 DEF OldAlike
<1>8. NewAlike'
  <2> SUFFICES ASSUME ~contested PROVE NewAlike'
    BY <1>1 DEF NewAlike
  <2>1. \A q \in Procs \ {p} : pc[q] \notin Creating
    BY <1>1, <1>3 DEF NewAlike, Creating
  <2>2. passwd = None /\ ~Opened
    BY <1>1, <1>3 DEF NewAlike, NewAt, Opened
  <2>3. \A q \in Procs : pc[q] \notin Opens
    BY <1>3, <2>2 DEF NewAlike, NewAt
  <2>4. \A a, b \in Procs : pc'[a] \in Creating /\ pc'[b] \in Creating => a = b
    BY <1>2, <2>1 DEF OthersStay
  <2>5. props' # None
    BY <1>1, ReadBack, NoneIsNotEmpty
  <2>6. ASSUME NEW q \in Procs PROVE NewAt(q)'
    <3>1. CASE q # p
      BY <1>2, <2>1, <2>3, <3>1 DEF NewAt, Creating, OthersStay
    <3>2. CASE q = p
      BY <1>1, <2>2, <2>5, <3>2 DEF NewAt, Opens, Migrating
    <3>3. QED
      BY <3>1, <3>2
  <2>7. Opened' => CreatedBy(p)'
    BY <1>1, <1>4, <2>2 DEF CreatedBy
  <2>8. QED
    BY <2>4, <2>5, <2>6, <2>7 DEF NewAlike
<1>9. QED
  BY <1>5, <1>6, <1>7, <1>8

LEMMA WritePasswdStep ==
    ASSUME AInv, TypeInv, NEW p \in Procs, AskPasswd(p) \/ OpenPasswd(p) \/ WritePasswd(p)
    PROVE  AInv'
<1> USE DEF AInv
<1>1. /\ UNCHANGED <<dirs, unmade, props, left, config, repository, old, contested, halfway>>
      /\ \/ /\ pc[p] = "askPasswd" /\ passwd' = passwd
            /\ pc'[p] = IF config[p].encryption # "None" /\ passwd = None THEN "openPasswd" ELSE "ended"
         \/ pc[p] = "openPasswd" /\ pc'[p] = "writePasswd" /\ passwd' = Empty
         \/ /\ pc[p] = "writePasswd" /\ pc'[p] = "ended"
            /\ passwd' = HashPassword(config[p].encryption, config[p].password)
  BY DEF AskPasswd, OpenPasswd, WritePasswd, Goes, Goto, history, disk, TypeInv
<1>2. OthersStay(p) /\ DomainsStay /\ Grows
  BY <1>1 DEF AskPasswd, OpenPasswd, WritePasswd, Goes, Goto, OthersStay, DomainsStay, DirsInv,
              TypeInv, Grows
<1>3. DirsInv'
  <2>1. DirsOf(p)
    BY DEF DirsInv
  <2>2. DirsOf(p)'
    BY <1>1, <2>1 DEF DirsOf, Ready, Creating, Opens, Migrating
  <2>3. (Opened => Ready(Settings(props).repoFormat))'
    BY <1>1 DEF DirsInv, Ready, Opened
  <2>4. QED
    BY <1>2, <2>2, <2>3, DirsStep
<1>4. VersionInv'
  BY <1>1, <1>2 DEF VersionInv, OthersStay, Opened, Opens, Migrating
<1>5. OldAlike'
  <2>1. ASSUME NEW e \in {"None", "Blowfish"}, OldIs(e) PROVE OldIs(e)'
    <3>1. e = "Blowfish" => pc[p] = "askPasswd" /\ passwd # None
      BY <1>1, <2>1 DEF OldIs, Fits
    <3>2. e = "Blowfish" => passwd' = passwd /\ pc'[p] = "ended" /\ (Fits(e)' = Fits(e))
      BY <1>1, <3>1 DEF Fits
    <3>3. QED
      BY <1>1, <1>2, <2>1, <3>2 DEF OldIs, OthersStay, Opened, Opens, Migrating
  <2>2. QED
    BY <1>1, <2>1 DEF OldAlike
<1>6. NewAlike'
  <2> SUFFICES ASSUME ~old, ~contested PROVE NewAlike'
    BY <1>1 DEF NewAlike
  <2>1. \A q \in Procs \ {p} : pc[q] \notin Creating
    BY <1>1 DEF NewAlike, Creating
  <2>2. NewAt(p) /\ props # None
    BY <1>1 DEF NewAlike, NewAt
  <2>3. \A a, b \in Procs : pc'[a] \in Creating /\ pc'[b] \in Creating => a = b
    BY <1>2, <2>1 DEF OthersStay
  <2>4. ASSUME NEW q \in Procs PROVE NewAt(q)'
    <3>1. NewAt(q)
      BY DEF NewAlike
    <3>2. CASE q # p
      BY <1>1, <1>2, <2>1, <3>1, <3>2 DEF NewAt, Creating, OthersStay, Opened
    <3>3. CASE q = p
      BY <1>1, <2>2, <3>3 DEF NewAt, Opens, Migrating
    <3>4. QED
      BY <3>2, <3>3
  <2>5. ASSUME Opened, ~halfway, Settings(props).encryption # "None"
        PROVE  Fits(Settings(props).encryption)' \/ CreatedBy(p)'
    <3>1. Fits(Settings(props).encryption) \/ CreatedBy(p)
      BY <2>1, <2>5 DEF NewAlike, CreatedBy, Creating
    <3>2. CASE Fits(Settings(props).encryption)
      BY <1>1, <2>2, <3>2 DEF Fits, NewAt
    <3>3. CASE CreatedBy(p)
      <4>1. /\ config[p].encryption # "None"
            /\ Settings(props).encryption = "Blowfish" <=> config[p].encryption = "Blowfish"
        BY <2>5, <3>3, ReadBack, EncryptionReadBack DEF CreatedBy
      <4>2. CASE pc[p] = "askPasswd"
        BY <1>1, <3>3, <4>1, <4>2 DEF CreatedBy
      <4>3. CASE pc[p] = "openPasswd"
        BY <1>1, <3>3, <4>3 DEF CreatedBy
      <4>4. CASE pc[p] = "writePasswd"
        <5>1. passwd' = HashPassword(config[p].encryption, config[p].password)
          BY <1>1, <4>4
        <5>2. /\ passwd' \notin {None, Empty}
              /\ passwd' = HashPassword(Settings(props).encryption, passwd'.password)
          <6> DEFINE e == Settings(props).encryption
                     c == config[p].encryption
                     hash == passwd'
          <6>1. (e = "Blowfish" <=> c = "Blowfish") /\ hash = HashPassword(c, config[p].password)
            BY <4>1, <5>1
          <6> HIDE DEF e, c, hash
          <6>2. hash \notin {None, Empty} /\ hash = HashPassword(e, hash.password)
            BY <6>1, HashFits
          <6>3. QED
            BY <6>2 DEF e, hash
        <5>3. QED
          BY <1>1, <5>2 DEF Fits
      <4>5. QED
        BY <1>1, <4>2, <4>3, <4>4
    <3>4. QED
      BY <3>1, <3>2, <3>3
  <2>6. QED
    BY <1>1, <2>2, <2>3, <2>4, <2>5 DEF NewAlike, Opened
<1>7. QED
  BY <1>3, <1>4, <1>5, <1>6

LEMMA OpenStep ==
    ASSUME AInv, TypeInv, NEW p \in Procs, Open(p)
    PROVE  AInv'
<1> USE DEF AInv
<1>1. /\ UNCHANGED <<dirs, unmade, settings, left, config, halfway>> /\ pc[p] = "open"
      /\ \/ Opened /\ pc'[p] = "check" /\ repository'[p] = Settings(props)
         \/ pc'[p] = "ended"
  BY DEF Open, Goes, Goto, history, disk, TypeInv, DirsInv, Opened, settings
<1>2. OthersStay(p) /\ DomainsStay /\ Grows
  BY <1>1 DEF Open, Goes, Goto, OthersStay, DomainsStay, DirsInv, TypeInv, Grows
<1> USE DEF settings
<1>3. DirsInv'
  <2>1. DirsOf(p)'
    BY <1>1 DEF DirsInv, DirsOf, Ready, Creating, Opens, Migrating
  <2>2. (Opened => Ready(Settings(props).repoFormat))'
    BY <1>1 DEF DirsInv, Ready, Opened
  <2>3. QED
    BY <1>2, <2>1, <2>2, DirsStep
<1>4. VersionInv'
  BY <1>1, <1>2 DEF VersionInv, OthersStay, Opened, Opens, Migrating
<1>5. OldAlike'
  <2>1. ASSUME NEW e \in {"None", "Blowfish"}, OldIs(e) PROVE OldIs(e)'
    <3>1. Fits(e)' = Fits(e) /\ Opened' = Opened
      BY <1>1 DEF Fits, Opened
    <3>2. QED
      BY <1>1, <1>2, <2>1, <3>1 DEF OldIs, OthersStay, Opens, Migrating
  <2>2. QED
    BY <1>1, <2>1 DEF OldAlike
<1>6. NewAlike'
  <2> SUFFICES ASSUME ~old, ~contested PROVE NewAlike'
    BY <1>1 DEF NewAlike
  <2>1. \A a, b \in Procs : pc'[a] \in Creating /\ pc'[b] \in Creating => a = b
    BY <1>1, <1>2 DEF NewAlike, OthersStay, Creating
  <2>2. ASSUME NEW q \in Procs PROVE NewAt(q)'
    <3>1. NewAt(q)
      BY DEF NewAlike
    <3>2. CASE q # p
      BY <1>1, <1>2, <3>1, <3>2 DEF NewAt, OthersStay, Opened
    <3>3. CASE q = p
      BY <1>1, <3>1, <3>3 DEF NewAt, Opened, Opens, Migrating
    <3>4. QED
      BY <3>2, <3>3
  <2>3. Opened' /\ ~halfway' /\ Settings(props').encryption # "None" =>
            Fits(Settings(props).encryption)' \/ \E q \in Procs : CreatedBy(q)'
    <3> SUFFICES ASSUME Opened, ~halfway, Settings(props).encryption # "None",
                        ~Fits(Settings(props).encryption)
                 PROVE  \E q \in Procs : CreatedBy(q)'
      BY <1>1 DEF Fits, Opened
    <3>1. PICK q \in Procs : CreatedBy(q)
      BY DEF NewAlike
    <3>2. q # p
      BY <1>1, <3>1 DEF CreatedBy
    <3>3. QED
      BY <1>1, <1>2, <3>1, <3>2 DEF CreatedBy, OthersStay
  <2>4. QED
    BY <1>1, <2>1, <2>2, <2>3 DEF NewAlike
<1>7. QED
  BY <1>3, <1>4, <1>5, <1>6

LEMMA RewriteStep ==
    ASSUME AInv, TypeInv, NEW p \in Procs, TruncateProps(p) \/ RewriteProps(p)
    PROVE  AInv'
<1> USE DEF AInv
<1>1. /\ UNCHANGED <<dirs, unmade, passwd, left, config, repository, old, contested, halfway>>
      /\ \/ pc[p] = "truncate" /\ pc'[p] = "rewrite" /\ props' = Empty
         \/ pc[p] = "rewrite" /\ pc'[p] = "unlockExclusive" /\ props' = Properties("3", repository[p])
  BY DEF TruncateProps, RewriteProps, Goes, Goto, history, TypeInv
<1>2. OthersStay(p) /\ DomainsStay /\ Grows
  BY <1>1 DEF TruncateProps, RewriteProps, Goes, Goto, OthersStay, DomainsStay, DirsInv, TypeInv, Grows
<1>3. old /\ old'
  BY <1>1 DEF VersionInv, Migrating
<1>4. Opened' => props' = Properties("3", repository[p])
  BY <1>1 DEF Opened
<1>5. pc[p] \in Opens
  BY <1>1 DEF Opens, Migrating
<1>6. DirsInv'
  <2>1. Ready(repository[p].repoFormat)
    BY <1>5 DEF DirsInv, DirsOf
  <2>2. DirsOf(p)'
    BY <1>1, <2>1 DEF DirsOf, Ready, Creating, Opens, Migrating
  <2>3. (Opened => Ready(Settings(props).repoFormat))'
    <3> SUFFICES ASSUME Opened' PROVE Ready(Settings(props).repoFormat)'
      OBVIOUS
    <3>1. Settings(props').repoFormat = "3" <=> repository[p].repoFormat = "3"
      BY <1>4, ReadBack
    <3>2. Buckets(Settings(props').repoFormat) = Buckets(repository[p].repoFormat)
      BY <3>1, SameBuckets
    <3>3. QED
      BY <1>1, <2>1, <3>2 DEF Ready
  <2>4. QED
    BY <1>2, <2>2, <2>3, DirsStep
<1>7. VersionInv' /\ NewAlike'
  BY <1>3 DEF VersionInv, NewAlike
<1>8. OldAlike'
  <2>1. ASSUME NEW e \in {"None", "Blowfish"}, OldIs(e) PROVE OldIs(e)'
    <3>1. Opened' => Plain(Settings(props'), e)
      <4>1. Plain(repository[p], e)
        BY <1>5, <2>1 DEF OldIs
      <4>2. QED
        BY <1>4, <4>1, PlainReadBack
    <3>2. Fits(e)' = Fits(e)
      BY <1>1 DEF Fits
    <3>3. QED
      BY <1>1, <1>2, <1>5, <2>1, <3>1, <3>2 DEF OldIs, OthersStay
  <2>2. QED
    BY <1>3, <2>1 DEF OldAlike
<1>9. QED
  BY <1>6, <1>7, <1>8

LEMMA StepAInv == AInv /\ IInv /\ [Next]_vars => AInv'
<1> SUFFICES ASSUME AInv, IInv, [Next]_vars PROVE AInv'
  OBVIOUS
<1>1. TypeInv /\ OldInv
  BY DEF IInv
<1>2. CASE UNCHANGED vars
  <2>1. Opened' = Opened /\ \A e : Fits(e)' = Fits(e)
    BY <1>2 DEF vars, disk, Opened, Fits
  <2>2. DirsInv' /\ VersionInv'
    BY <1>2, <2>1 DEF vars, disk, local, history, AInv, DirsInv, DirsOf, Ready, VersionInv
  <2>3. OldAlike'
    BY <1>2, <2>1 DEF vars, disk, local, history, AInv, OldAlike, OldIs
  <2>4. NewAlike'
    BY <1>2, <2>1 DEF vars, disk, local, history, AInv, NewAlike, NewAt, CreatedBy
  <2>5. QED
    BY <2>2, <2>3, <2>4 DEF AInv
<1>3. ASSUME NEW p \in Procs, Start(p) \/ Create(p) \/ Open(p) PROVE AInv'
  BY <1>1, <1>3, StartStep, CheckEmptyStep, MakeDirStep, AskPropsStep, WritePropsStep,
     WritePasswdStep, OpenStep DEF Create
<1>4. ASSUME NEW p \in Procs,
             CheckPassword(p) \/ Use(p) \/ Migrate(p) \/ Die(p) \/ CleanLocks(p)
      PROVE  AInv'
  BY <1>1, <1>4, QuietActions, RewriteStep DEF Migrate
<1>5. QED
  BY <1>2, <1>3, <1>4 DEF Next

LEMMA AInvariance == Spec => [](AInv /\ IInv)
BY InitAInv, StepAInv, Invariance, PTL DEF Spec

-----------------------------------------------------------------------------
(* The types: what AInv and IInv do not say.  Only compressions and        *)
(* encryptions that exist are configured, written and read back; no step   *)
(* but the two unlocks, the two locks and a death separates a process from *)
(* the mode that goes with where it is.                                    *)
FilesInv ==
    dirs \subseteq AllDirs /\ props \in PropertyFiles /\ left \in [Procs -> Seq(AllDirs)]
KnownInv == \A p \in Procs : Known(config[p]) /\ Known(repository[p])
IdleInv ==
    \A p \in Procs : pc[p] \notin SharedAt \cup ExclusiveAt \cup {"dead"} => mode[p] = "none"
TInv == FilesInv /\ KnownInv /\ IdleInv /\ mishaps \in 0..MaxMishaps

LEMMA KnownReadBack ==
    ASSUME NEW c \in Compressions
    PROVE  CompressionByName(CompressionToName(c)) \in Compressions
BY DEF CompressionByName, CompressionToName, Compressions

LEMMA KnownEncryptionReadBack ==
    ASSUME NEW e \in Encryptions
    PROVE  EncryptionByName(EncryptionToName(e)) \in Encryptions
BY DEF EncryptionByName, EncryptionToName, Encryptions

LEMMA WrittenFiles ==
    ASSUME NEW s, Known(s)
    PROVE  Properties("3", s) \in PropertyFiles
<1> DEFINE names == [version : {"3"}, compression : {CompressionToName(c) : c \in Compressions},
                     encryption : {EncryptionToName(c) : c \in Encryptions}, repoFormat : {"2-2", "3"}]
           compression == CompressionToName(s.compression)
           encryption == EncryptionToName(s.encryption)
           format == RepoFormatToName(s.repoFormat)
<1>1. /\ compression \in {CompressionToName(c) : c \in Compressions}
      /\ encryption \in {EncryptionToName(c) : c \in Encryptions}
  BY DEF Known
<1>2. format \in {"2-2", "3"}
  BY DEF RepoFormatToName
<1>3. Properties("3", s) =
          [version |-> "3", compression |-> compression, encryption |-> encryption, repoFormat |-> format]
  BY DEF Properties
<1> HIDE DEF compression, encryption, format
<1>4. Properties("3", s) \in names
  BY <1>1, <1>2, <1>3
<1>5. QED
  BY <1>4 DEF PropertyFiles

LEMMA ReadFiles ==
    ASSUME props \in PropertyFiles, Opened
    PROVE  Known(Settings(props))
<1> DEFINE two == [version : {"2"}, compression : {"Deflate"}, encryption : {"None", "Blowfish"}]
           three == [version : {"3"}, compression : {CompressionToName(c) : c \in Compressions},
                     encryption : {EncryptionToName(c) : c \in Encryptions}, repoFormat : {"2-2", "3"}]
<1>1. props \in two \/ props \in three
  BY DEF PropertyFiles, Opened
<1>2. {"compression", "encryption"} \subseteq DOMAIN props
  BY <1>1
<1>3. /\ GetProperty(props, "compression") = props.compression
      /\ GetProperty(props, "encryption") = props.encryption
  BY <1>2 DEF GetProperty
<1>4. /\ Settings(props).compression = CompressionByName(props.compression)
      /\ Settings(props).encryption = EncryptionByName(props.encryption)
  BY <1>3 DEF Settings
<1>5. CASE props \in two
  <2>1. props.compression = "Deflate" /\ props.encryption \in {"None", "Blowfish"}
    BY <1>5
  <2>2. QED
    BY <1>4, <2>1 DEF Known, CompressionByName, EncryptionByName, Compressions, Encryptions
<1>6. CASE props \in three
  <2>1. PICK c \in Compressions : props.compression = CompressionToName(c)
    BY <1>6
  <2>2. PICK e \in Encryptions : props.encryption = EncryptionToName(e)
    BY <1>6
  <2>3. QED
    BY <1>4, <2>1, <2>2, KnownReadBack, KnownEncryptionReadBack DEF Known
<1>7. QED
  BY <1>1, <1>5, <1>6

LEMMA KnownAtFirst == Known(Defaults) /\ Known(NoSettings)
<1>1. Known(Defaults)
  BY DEF Known, Defaults, Compressions, Encryptions
<1>2. DOMAIN Empty = {"version"}
  BY DEF Empty
<1>3. GetProperty(Empty, "compression") = "" /\ GetProperty(Empty, "encryption") = ""
  BY <1>2 DEF GetProperty
<1>4. NoSettings.compression = "None" /\ NoSettings.encryption = "None"
  BY <1>3 DEF NoSettings, Settings, CompressionByName, EncryptionByName
<1>5. QED
  BY <1>1, <1>4 DEF Known, Compressions, Encryptions

LEMMA InitTInv == Init => TInv
<1> SUFFICES ASSUME Init PROVE TInv
  OBVIOUS
<1>1. /\ config = [p \in Procs |-> Defaults] /\ repository = [p \in Procs |-> NoSettings]
      /\ left = [p \in Procs |-> <<>>] /\ mode = [p \in Procs |-> "none"] /\ mishaps = 0
  BY Zenon DEF Init
<1>2. dirs \subseteq AllDirs
  <2>1. \/ dirs \in {{}, {<<"repo">>}}
        \/ dirs = Range(TopDirs) \cup Range(Buckets("2-2"))
    BY Zenon DEF Init
  <2>2. <<"repo">> \in Range(TopDirs)
    <3>1. 1 \in DOMAIN TopDirs /\ TopDirs[1] = <<"repo">>
      BY DEF TopDirs
    <3>2. QED
      BY <3>1 DEF Range
  <2>3. QED
    BY <2>1, <2>2 DEF AllDirs
<1>3. props \in PropertyFiles
  <2>1. props = None \/ \E e \in {"None", "Blowfish"} : props = V2Properties(e)
    BY Zenon DEF Init
  <2>2. \A e \in {"None", "Blowfish"} :
            V2Properties(e) \in
                [version : {"2"}, compression : {"Deflate"}, encryption : {"None", "Blowfish"}]
    BY DEF V2Properties
  <2>3. QED
    BY <2>1, <2>2 DEF PropertyFiles
<1>4. left \in [Procs -> Seq(AllDirs)]
  BY <1>1
<1>5. KnownInv
  BY <1>1, KnownAtFirst DEF KnownInv
<1>6. IdleInv
  BY <1>1 DEF IdleInv
<1>7. mishaps \in 0..MaxMishaps
  BY <1>1, SetupAssumption
<1>8. QED
  BY <1>2, <1>3, <1>4, <1>5, <1>6, <1>7 DEF TInv, FilesInv

(* Steps that leave all this alone but for where a process is.             *)
Typed == <<dirs, props, left, config, repository, mishaps>>

LEMMA SameTypes ==
    ASSUME TInv, UNCHANGED Typed, IdleInv'
    PROVE  TInv'
BY DEF TInv, FilesInv, KnownInv, Typed

(* init, and what any operation does first.                                *)
LEMMA BeginningIdle ==
    ASSUME TInv, TypeInv, NEW p \in Procs, Beginning(p)
    PROVE  IdleInv'
<1>1. UNCHANGED mode /\ pc[p] \notin After /\ Moves(p)
  BY BeginningMoves
<1>2. mode[p] = "none"
  BY <1>1 DEF TInv, IdleInv, After, Migrating, SharedAt, ExclusiveAt
<1>3. QED
  BY <1>1, <1>2 DEF TInv, IdleInv, Moves

LEMMA StartTypes ==
    ASSUME TInv, AInv, TypeInv, NEW p \in Procs, Start(p)
    PROVE  TInv'
<1>1. UNCHANGED <<dirs, props, left, repository, mishaps>>
  BY DEF Start, disk, history
<1>2. IdleInv'
  BY BeginningIdle DEF Beginning
<1>3. PICK options \in CommandLines :
          \/ UNCHANGED config
          \/ /\ ~ParseCommandlineArgs(options).exit
             /\ config' = [config EXCEPT ![p] = ParseCommandlineArgs(options)]
  BY DEF Start
<1>4. ~ParseCommandlineArgs(options).exit => Known(ParseCommandlineArgs(options))
  BY OptionsAssumption
<1>5. KnownInv'
  BY <1>1, <1>3, <1>4 DEF TInv, KnownInv, AInv, DirsInv
<1>6. QED
  BY <1>1, <1>2, <1>5 DEF TInv, FilesInv

LEMMA CheckEmptyTypes ==
    ASSUME TInv, AInv, TypeInv, NEW p \in Procs, CheckEmpty(p)
    PROVE  TInv'
<1>1. /\ UNCHANGED <<dirs, props, config, repository, mishaps>>
      /\ \/ UNCHANGED left
         \/ left' = [left EXCEPT ![p] = TopDirs \o Buckets(config[p].repoFormat)]
  BY DEF CheckEmpty, disk, history
<1>2. left' \in [Procs -> Seq(AllDirs)]
  BY <1>1, BucketsSeq DEF TInv, FilesInv
<1>3. IdleInv'
  BY BeginningIdle DEF Beginning, Create
<1>4. QED
  BY <1>1, <1>2, <1>3 DEF TInv, FilesInv, KnownInv

LEMMA MakeDirTypes ==
    ASSUME TInv, AInv, TypeInv, NEW p \in Procs, MakeDir(p) \/ MakeDirFails(p)
    PROVE  TInv'
<1>1. /\ UNCHANGED <<props, config, repository>> /\ left[p] # <<>>
      /\ left' = [left EXCEPT ![p] = Tail(@)]
      /\ dirs' = dirs \/ dirs' = dirs \cup {Head(left[p])}
      /\ mishaps' = mishaps \/ (mishaps < MaxMishaps /\ mishaps' = mishaps + 1)
  BY DEF MakeDir, MakeDirFails, disk, history
<1>2. left[p] \in Seq(AllDirs)
  BY DEF TInv, FilesInv
<1>3. Tail(left[p]) \in Seq(AllDirs) /\ Head(left[p]) \in AllDirs
  BY <1>1, <1>2
<1>4. left' \in [Procs -> Seq(AllDirs)] /\ dirs' \subseteq AllDirs
  BY <1>1, <1>3 DEF TInv, FilesInv
<1>5. mishaps' \in 0..MaxMishaps
  BY <1>1, SetupAssumption DEF TInv
<1>6. IdleInv'
  BY BeginningIdle DEF Beginning, Create
<1>7. QED
  BY <1>1, <1>4, <1>5, <1>6 DEF TInv, FilesInv, KnownInv

LEMMA CreateTypes ==
    ASSUME TInv, AInv, TypeInv, NEW p \in Procs, Create(p)
    PROVE  TInv'
<1>1. IdleInv'
  BY BeginningIdle DEF Beginning
<1>2. CASE AskProps(p) \/ AskPasswd(p) \/ OpenPasswd(p) \/ WritePasswd(p)
  <2>1. UNCHANGED Typed
    BY <1>2 DEF AskProps, AskPasswd, OpenPasswd, WritePasswd, Typed, disk, history
  <2>2. QED
    BY <1>1, <2>1, SameTypes
<1>3. CASE OpenProps(p) \/ WriteProps(p)
  <2>1. /\ UNCHANGED <<dirs, left, config, repository, mishaps>>
        /\ props' = Empty \/ props' = Properties("3", config[p])
    BY <1>3 DEF OpenProps, WriteProps, history
  <2>2. Known(config[p])
    BY DEF TInv, KnownInv
  <2>3. Properties("3", config[p]) \in PropertyFiles
    BY <2>2, WrittenFiles
  <2>4. props' \in PropertyFiles
    BY <2>1, <2>3 DEF PropertyFiles
  <2>5. QED
    BY <1>1, <2>1, <2>4 DEF TInv, FilesInv, KnownInv
<1>4. QED
  BY <1>2, <1>3, CheckEmptyTypes, MakeDirTypes DEF Create

LEMMA OpenTypes ==
    ASSUME TInv, AInv, TypeInv, NEW p \in Procs, Open(p) \/ CheckPassword(p) \/ Use(p)
    PROVE  TInv'
<1>1. IdleInv'
  BY BeginningIdle DEF Beginning
<1>2. CASE CheckPassword(p) \/ Use(p)
  <2>1. UNCHANGED Typed
    BY <1>2 DEF CheckPassword, Use, Typed, disk, history
  <2>2. QED
    BY <1>1, <2>1, SameTypes
<1>3. CASE Open(p)
  <2>1. /\ UNCHANGED <<dirs, props, left, config, mishaps>>
        /\ \/ UNCHANGED repository
           \/ Opened /\ repository' = [repository EXCEPT ![p] = Settings(props)]
    BY <1>3 DEF Open, Opened, disk, history
  <2>2. Opened => Known(Settings(props))
    BY ReadFiles DEF TInv, FilesInv
  <2>3. KnownInv'
    BY <2>1, <2>2 DEF TInv, KnownInv, AInv, DirsInv
  <2>4. QED
    BY <1>1, <2>1, <2>3 DEF TInv, FilesInv
<1>4. QED
  BY <1>2, <1>3

(* The steps of a migration.                                               *)
LEMMA LocksTypes ==
    ASSUME TInv, TypeInv, NEW p \in Procs,
           LockShared(p) \/ LockExclusive(p) \/ UnlockShared(p) \/ UnlockExclusive(p) \/ CleanLocks(p)
    PROVE  TInv'
<1>1. UNCHANGED Typed
  BY DEF LockShared, LockExclusive, UnlockShared, UnlockExclusive, CleanLocks, Typed, history, local
<1>2. \A q \in Procs \ {p} : pc'[q] = pc[q] /\ mode'[q] = mode[q]
  BY DEF LockShared, LockExclusive, UnlockShared, UnlockExclusive, CleanLocks, Goes, Goto, local,
         RepoLock!AcquireShared, RepoLock!AcquireExclusive, RepoLock!Release, TypeInv
<1>3. pc'[p] \notin SharedAt \cup ExclusiveAt \cup {"dead"} => mode'[p] = "none"
  <2>1. CASE LockShared(p) \/ LockExclusive(p)
    <3>1. \/ pc'[p] \in SharedAt \cup ExclusiveAt
          \/ pc[p] \in {"lock", "lockExclusive"} /\ mode'[p] = mode[p]
      BY <2>1 DEF LockShared, LockExclusive, Goes, Goto, TypeInv, SharedAt, ExclusiveAt
    <3>2. pc[p] \in {"lock", "lockExclusive"} => mode[p] = "none"
      BY DEF TInv, IdleInv, SharedAt, ExclusiveAt
    <3>3. QED
      BY <3>1, <3>2
  <2>2. CASE UnlockShared(p) \/ UnlockExclusive(p) \/ CleanLocks(p)
    <3>1. mode'[p] = "none"
      BY <2>2 DEF UnlockShared, UnlockExclusive, CleanLocks, RepoLock!Release, TypeInv
    <3>2. QED
      BY <3>1
  <2>3. QED
    BY <2>1, <2>2
<1>4. IdleInv'
  BY <1>2, <1>3 DEF TInv, IdleInv
<1>5. QED
  BY <1>1, <1>4, SameTypes

LEMMA WritesTypes ==
    ASSUME TInv, TypeInv, NEW p \in Procs,
           SkipRoot(p) \/ OpenIndexFile(p) \/ WriteEntries(p) \/ FinishIndexFile(p)
    PROVE  TInv'
<1>1. UNCHANGED <<Typed, mode>>
  BY DEF SkipRoot, OpenIndexFile, WriteEntries, FinishIndexFile, Typed, disk, history
<1>2. /\ \A q \in Procs \ {p} : pc'[q] = pc[q]
      /\ pc'[p] \in SharedAt
  BY DEF SkipRoot, OpenIndexFile, WriteEntries, FinishIndexFile, Goes, Goto, TypeInv, SharedAt
<1>3. IdleInv'
  BY <1>1, <1>2 DEF TInv, IdleInv
<1>4. QED
  BY <1>1, <1>3, SameTypes DEF Typed

LEMMA RewriteTypes ==
    ASSUME TInv, TypeInv, NEW p \in Procs, TruncateProps(p) \/ RewriteProps(p)
    PROVE  TInv'
<1>1. /\ UNCHANGED <<dirs, left, config, repository, mishaps, mode>>
      /\ props' = Empty \/ props' = Properties("3", repository[p])
      /\ \A q \in Procs \ {p} : pc'[q] = pc[q]
      /\ pc'[p] \in ExclusiveAt
  BY DEF TruncateProps, RewriteProps, history, Goes, Goto, TypeInv, ExclusiveAt
<1>2. Known(repository[p])
  BY DEF TInv, KnownInv
<1>3. Properties("3", repository[p]) \in PropertyFiles
  BY <1>2, WrittenFiles
<1>4. props' \in PropertyFiles
  BY <1>1, <1>3 DEF PropertyFiles
<1>5. IdleInv'
  BY <1>1 DEF TInv, IdleInv
<1>6. QED
  BY <1>1, <1>4, <1>5 DEF TInv, FilesInv, KnownInv

LEMMA DieTypes ==
    ASSUME TInv, TypeInv, NEW p \in Procs, Die(p)
    PROVE  TInv'
<1>1. /\ UNCHANGED <<dirs, props, left, config, repository, mode>>
      /\ mishaps < MaxMishaps /\ mishaps' = mishaps + 1
      /\ pc' = [pc EXCEPT ![p] = "dead"]
  BY DEF Die, Goto, disk
<1>2. mishaps' \in 0..MaxMishaps
  BY <1>1, SetupAssumption DEF TInv
<1>3. IdleInv'
  BY <1>1 DEF TInv, IdleInv, TypeInv
<1>4. QED
  BY <1>1, <1>2, <1>3 DEF TInv, FilesInv, KnownInv

LEMMA StepTInv == TInv /\ AInv /\ IInv /\ [Next]_vars => TInv'
<1> SUFFICES ASSUME TInv, AInv, IInv, [Next]_vars PROVE TInv'
  OBVIOUS
<1>1. TypeInv
  BY DEF IInv
<1>2. CASE UNCHANGED vars
  <2>1. UNCHANGED <<Typed, mode, pc>>
    BY <1>2 DEF vars, disk, local, history, Typed
  <2>2. IdleInv'
    BY <2>1 DEF TInv, IdleInv
  <2>3. QED
    BY <2>1, <2>2, SameTypes
<1>3. ASSUME NEW p \in Procs, Start(p) \/ Create(p) \/ Open(p) \/ CheckPassword(p) \/ Use(p)
      PROVE  TInv'
  BY <1>1, <1>3, StartTypes, CreateTypes, OpenTypes
<1>4. ASSUME NEW p \in Procs, Migrate(p) \/ Die(p) \/ CleanLocks(p)
      PROVE  TInv'
  BY <1>1, <1>4, LocksTypes, WritesTypes, RewriteTypes, DieTypes DEF Migrate
<1>5. QED
  BY <1>2, <1>3, <1>4 DEF Next

(* Every variable keeps its type, whatever the options: only directories   *)
(* of the layout are made, repo.properties names only a version, a         *)
(* compression, an encryption and a format that can be read back, and a    *)
(* process that is alive holds the lock in exactly the mode of the step it *)
(* is at, so that none keeps it when it ends (shaback.cpp:92-131,          *)
(* Repository.cpp:68-95, Migration.cpp:40-141).                            *)
THEOREM TypeCorrect == Spec => []TypeOK
<1>1. TInv /\ IInv => TypeOK
  <2> SUFFICES ASSUME TInv, IInv PROVE TypeOK
    OBVIOUS
  <2>1. ASSUME NEW p \in Procs
        PROVE  /\ left[p] \in Seq(AllDirs) /\ rootFiles[p] \subseteq Roots /\ written[p] \in 0..Chunks
               /\ pc[p] \in {"write", "finish"} => rootFile[p] \in Roots /\ fd[p] \in Procs
    BY DEF TInv, FilesInv, IInv, TypeInv, WriterInv, Writing
  <2>2. ASSUME NEW p \in Procs, pc[p] # "dead"
        PROVE  mode[p] = CASE pc[p] \in SharedAt -> "shared"
                           [] pc[p] \in ExclusiveAt -> "exclusive"
                           [] OTHER -> "none"
    <3>1. pc[p] \in SharedAt => mode[p] = "shared"
      BY DEF IInv, LockInv
    <3>2. pc[p] \in ExclusiveAt => mode[p] = "exclusive"
      BY DEF IInv, LockInv
    <3>3. pc[p] \notin SharedAt \cup ExclusiveAt => mode[p] = "none"
      BY <2>2 DEF TInv, IdleInv
    <3>4. ~(pc[p] \in SharedAt /\ pc[p] \in ExclusiveAt)
      BY DEF SharedAt, ExclusiveAt
    <3>5. QED
      BY <3>1, <3>2, <3>3, <3>4
  <2>3. /\ dirs \subseteq AllDirs /\ props \in PropertyFiles
        /\ tmp \in [Roots -> Procs \cup {None}] /\ shabackup \in [Roots -> Procs \cup {None}]
        /\ content \in [Roots -> [Procs -> SUBSET (1..Chunks)]] /\ mishaps \in 0..MaxMishaps
    BY DEF TInv, FilesInv, IInv, TypeInv
  <2>4. QED
    BY <2>1, <2>2, <2>3 DEF TypeOK
<1>2. Spec => []TInv
  BY AInvariance, InitTInv, StepTInv, PTL DEF Spec
<1>3. QED
  BY <1>1, <1>2, Invariance, PTL

-----------------------------------------------------------------------------
(* Whenever the repository can be opened, all directories that its format  *)
(* asks for have been made, or mkdir() has failed for them.                *)
LEMMA AllDirsMade == AInv => DirsComplete
<1> SUFFICES ASSUME AInv, Opened
             PROVE  /\ Range(TopDirs) \subseteq dirs
                    /\ \A hash \in [1..4 -> Digits] :
                           HashValueToFile(Settings(props).repoFormat, hash) \in dirs \cup unmade
  BY DEF DirsComplete
<1>1. Ready(Settings(props).repoFormat)
  BY DEF AInv, DirsInv
<1>2. QED
  BY <1>1, BucketOfHash DEF Ready

LEMMA AllAgree == AInv /\ TypeInv => contested \/ Agreement
<1> SUFFICES ASSUME AInv, TypeInv, ~contested, Opened, NEW p \in Reading
             PROVE  LET own == repository[p]
                        its == Settings(props)
                    IN  /\ own.encryption = its.encryption /\ own.repoFormat = its.repoFormat
                        /\ Decompressor(own.compression) = Decompressor(its.compression)
  BY DEF Agreement
<1>1. p \in Procs /\ pc[p] \in Opens
  BY DEF Reading, TypeInv, Steps, Opens, Dead
<1>2. CASE old
  <2>1. PICK e \in {"None", "Blowfish"} : OldIs(e)
    BY <1>2 DEF AInv, OldAlike
  <2>2. Plain(repository[p], e) /\ Plain(Settings(props), e)
    BY <1>1, <2>1 DEF OldIs
  <2>3. QED
    BY <2>2 DEF Plain
<1>3. CASE ~old
  <2>1. repository[p] = Settings(props)
    BY <1>1, <1>3 DEF AInv, NewAlike, NewAt
  <2>2. QED
    BY <2>1
<1>4. QED
  BY <1>2, <1>3

LEMMA PasswordsFit == AInv => contested \/ halfway \/ PasswordFits
<1> SUFFICES ASSUME AInv, ~contested, ~halfway, Opened, Settings(props).encryption # "None",
                    \A p \in Procs : pc[p] \notin Creating
             PROVE  Fits(Settings(props).encryption)
  BY DEF PasswordFits, Fits
<1>1. CASE old
  <2>1. PICK e \in {"None", "Blowfish"} : OldIs(e)
    BY <1>1 DEF AInv, OldAlike
  <2>2. Settings(props).encryption = e /\ e = "Blowfish"
    BY <2>1 DEF OldIs, Plain
  <2>3. QED
    BY <2>1, <2>2 DEF OldIs
<1>2. CASE ~old
  <2>1. ~\E p \in Procs : CreatedBy(p)
    BY DEF CreatedBy, Creating
  <2>2. QED
    BY <1>2, <2>1 DEF AInv, NewAlike
<1>3. QED
  BY <1>1, <1>2

(* Whoever creates a repository, with whatever options, and wherever it    *)
(* stops: if it can be opened it has a place for every blob. Unless two    *)
(* create it at a time, all who open it agree with its properties; unless  *)
(* one has died between the two files, its password can be checked         *)
(* (shaback.cpp:50-160, Repository.cpp:68-127, Migration.cpp:126-141).     *)
THEOREM RepositoriesOpenAlike == Spec => []OpensAlike
<1>1. AInv /\ IInv => OpensAlike
  BY AllDirsMade, AllAgree, PasswordsFit DEF IInv, OpensAlike
<1>2. QED
  BY <1>1, AInvariance, PTL
=============================================================================
