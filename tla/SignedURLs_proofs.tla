------------------------- MODULE SignedURLs_proofs -------------------------
(***************************************************************************)
(* One bucket is as good as a shelf for every resource, and signed URLs    *)
(* lead where they should, for any resources with identifiers of four      *)
(* characters or more.                                                     *)
(***************************************************************************)
EXTENDS SignedURLs, SequenceTheorems, TLAPS

-----------------------------------------------------------------------------
(* Sequences.                                                               *)

\* What is in a concatenation.
LEMMA Concat ==
  ASSUME NEW s \in Path, NEW t \in Path
  PROVE  /\ s \o t \in Path
         /\ Len(s \o t) = Len(s) + Len(t)
         /\ Len(s) \in Nat /\ Len(t) \in Nat
         /\ \A i \in 1..Len(s) : (s \o t)[i] = s[i]
         /\ \A i \in 1..Len(t) : (s \o t)[Len(s) + i] = t[i]
  BY DEF Path

\* A path is its elements.
LEMMA SamePath ==
  ASSUME NEW s \in Path, NEW t \in Path, Len(s) = Len(t),
         \A i \in 1..Len(s) : s[i] = t[i]
  PROVE  s = t
  BY SeqEqual DEF Path

\* A prefix, element by element.
LEMMA PrefixElements ==
  ASSUME NEW s \in Path, NEW t \in Path
  PROVE  IsPrefix(s, t) <=> Len(s) <= Len(t) /\ \A i \in 1..Len(s) : s[i] = t[i]
  <1>1. Len(s) \in Nat /\ Len(t) \in Nat
    BY DEF Path
  <1>2. SubSeq(s, 1, Len(s)) = s
    BY SubSeqFull DEF Path
  <1>3. ASSUME Len(s) <= Len(t)
        PROVE  /\ SubSeq(t, 1, Len(s)) \in Path
               /\ Len(SubSeq(t, 1, Len(s))) = Len(s)
               /\ \A i \in 1..Len(s) : SubSeq(t, 1, Len(s))[i] = t[i]
    BY <1>1, <1>3, SubSeqProperties DEF Path
  <1>4. QED
    BY <1>1, <1>2, <1>3, SamePath DEF IsPrefix

-----------------------------------------------------------------------------
(* Partitioning.                                                            *)

\* A part of a path.
LEMMA PartOf ==
  ASSUME NEW s \in Path, NEW m \in 1..Len(s), NEW n \in m..Len(s)
  PROVE  /\ SubSeq(s, m, n) \in Path
         /\ Len(SubSeq(s, m, n)) = n - m + 1
         /\ \A i \in 1..(n - m + 1) : SubSeq(s, m, n)[i] = s[m + i - 1]
  <1>1. Len(s) \in Nat
    BY DEF Path
  <1>2. QED
    BY <1>1, SubSeqProperties DEF Path

LEMMA SlashPath == Slash \in Path /\ Len(Slash) = 1 /\ Slash[1] = "/"
  <1>1. "/" \in Char
    BY PathsAssumption
  <1>2. QED
    BY <1>1 DEF Slash, Path

\* The directories of a long identifier.
LEMMA LongPartition ==
  ASSUME NEW id \in Path, Len(id) >= 4
  PROVE  /\ Partition(id) \in Path
         /\ Len(Partition(id)) = 6
         /\ Partition(id)[1] = id[1] /\ Partition(id)[2] = id[2]
         /\ Partition(id)[4] = id[3] /\ Partition(id)[5] = id[4]
         /\ \A i \in {3, 6} : Partition(id)[i] = "/"
  <1>1. Partition(id) = SubSeq(id, 1, 2) \o <<"/">> \o SubSeq(id, 3, 4) \o <<"/">>
    BY DEF Partition, Slash, Path
  <1>2. Partition(id) \in Path
    BY <1>1, SlashPath DEF Path, Slash
  <1>3. QED
    BY <1>1, <1>2 DEF Path

\* A partitioned identifier.
LEMMA LongPath ==
  ASSUME NEW id \in Path, Len(id) >= 4
  PROVE  /\ pathFor(id) \in Path
         /\ Len(pathFor(id)) = 6 + Len(id)
         /\ \A i \in 1..6 : pathFor(id)[i] = Partition(id)[i]
         /\ \A i \in 1..Len(id) : pathFor(id)[6 + i] = id[i]
  <1>1. id \in Path /\ Partition(id) \in Path /\ Len(Partition(id)) = 6 /\ Len(id) \in Nat
    BY LongPartition DEF Path
  <1>2. /\ Partition(id) \o id \in Path
        /\ Len(Partition(id) \o id) = 6 + Len(id)
        /\ \A i \in 1..6 : (Partition(id) \o id)[i] = Partition(id)[i]
        /\ \A i \in 1..Len(id) : (Partition(id) \o id)[6 + i] = id[i]
    <2>1. /\ Partition(id) \o id \in Path
          /\ Len(Partition(id) \o id) = Len(Partition(id)) + Len(id)
          /\ \A i \in 1..Len(Partition(id)) : (Partition(id) \o id)[i] = Partition(id)[i]
          /\ \A i \in 1..Len(id) : (Partition(id) \o id)[Len(Partition(id)) + i] = id[i]
      BY <1>1, Concat, Zenon
    <2>2. QED
      BY <1>1, <2>1
  <1>3. QED
    BY <1>2 DEF pathFor

-----------------------------------------------------------------------------
(* Prefixes.                                                                *)

LEMMA RootPath == \A b : Root(b) \in Path
  <1>1. <<>> \in Path
    BY EmptySeq DEF Path
  <1>2. QED
    BY <1>1, PathsAssumption, SlashPath, Concat DEF Root

\* The names of the prefixes, of which only the lengths and the third
\* characters matter.
LEMMA NamePaths ==
  /\ BuildpackCache \in Path /\ Len(BuildpackCache) = 15 /\ BuildpackCache[3] = "i"
  /\ AppBitsCache \in Path /\ Len(AppBitsCache) = 14 /\ AppBitsCache[3] = "p"
  <1>1. PICK a \in Char, b \in Char, c \in Char, d \in Char, e \in Char, h \in Char,
             i \in Char, k \in Char, l \in Char, p \in Char, s \in Char, t \in Char,
             u \in Char, score \in Char :
          /\ a = "a" /\ b = "b" /\ c = "c" /\ d = "d" /\ e = "e" /\ h = "h" /\ i = "i"
          /\ k = "k" /\ l = "l" /\ p = "p" /\ s = "s" /\ t = "t" /\ u = "u" /\ score = "_"
    BY PathsAssumption
  <1>2. /\ a \in Char /\ b \in Char /\ c \in Char /\ d \in Char /\ e \in Char /\ h \in Char
        /\ i \in Char /\ k \in Char /\ l \in Char /\ p \in Char /\ s \in Char /\ t \in Char
        /\ u \in Char /\ score \in Char
    BY <1>1
  <1>3. BuildpackCache \in Path /\ Len(BuildpackCache) = 15 /\ BuildpackCache[3] = "i"
    <2>1. BuildpackCache = <<b, u, i, l, d, p, a, c, k, score, c, a, c, h, e>>
      BY <1>1 DEF BuildpackCache
    <2>2. <<b, u, i, l, d, p, a, c, k, score, c, a, c, h, e>> \in Path
      BY <1>2 DEF Path
    <2>3. Len(BuildpackCache) = 15 /\ BuildpackCache[3] = "i"
      BY DEF BuildpackCache
    <2>4. QED
      BY <2>1, <2>2, <2>3
  <1>4. AppBitsCache \in Path /\ Len(AppBitsCache) = 14 /\ AppBitsCache[3] = "p"
    <2>1. AppBitsCache = <<a, p, p, score, b, i, t, s, score, c, a, c, h, e>>
      BY <1>1 DEF AppBitsCache
    <2>2. <<a, p, p, score, b, i, t, s, score, c, a, c, h, e>> \in Path
      BY <1>2 DEF Path
    <2>3. Len(AppBitsCache) = 14 /\ AppBitsCache[3] = "p"
      BY DEF AppBitsCache
    <2>4. QED
      BY <2>1, <2>2, <2>3
  <1>5. QED
    BY <1>3, <1>4

\* The prefixes of the types.
LEMMA TypePrefixes ==
  /\ TypePrefix("droplets") \in Path /\ Len(TypePrefix("droplets")) = 0
  /\ TypePrefix("buildpack_cache") \in Path /\ Len(TypePrefix("buildpack_cache")) = 16
  /\ TypePrefix("buildpack_cache")[3] = "i" /\ TypePrefix("buildpack_cache")[16] = "/"
  /\ TypePrefix("app_stash") \in Path /\ Len(TypePrefix("app_stash")) = 15
  /\ TypePrefix("app_stash")[3] = "p"
  <1>1. /\ TypePrefix("droplets") = <<>>
        /\ TypePrefix("buildpack_cache") = BuildpackCache \o Slash
        /\ TypePrefix("app_stash") = AppBitsCache \o Slash
    BY DEF TypePrefix
  <1>2. <<>> \in Path /\ Len(<<>>) = 0
    BY EmptySeq DEF Path
  <1>3. /\ BuildpackCache \o Slash \in Path /\ Len(BuildpackCache \o Slash) = 16
        /\ (BuildpackCache \o Slash)[3] = "i"
        /\ (BuildpackCache \o Slash)[15 + 1] = "/"
    <2>1. 3 \in 1..15 /\ 1 \in 1..1
      OBVIOUS
    <2>2. /\ BuildpackCache \o Slash \in Path
          /\ Len(BuildpackCache \o Slash) = Len(BuildpackCache) + Len(Slash)
          /\ \A j \in 1..Len(BuildpackCache) : (BuildpackCache \o Slash)[j] = BuildpackCache[j]
          /\ \A j \in 1..Len(Slash) :
               (BuildpackCache \o Slash)[Len(BuildpackCache) + j] = Slash[j]
      BY NamePaths, SlashPath, Concat, Zenon
    <2>3. QED
      BY NamePaths, <2>1, <2>2, SlashPath
  <1>4. /\ AppBitsCache \o Slash \in Path /\ Len(AppBitsCache \o Slash) = 15
        /\ (AppBitsCache \o Slash)[3] = "p"
    <2>1. 3 \in 1..14
      OBVIOUS
    <2>2. /\ AppBitsCache \o Slash \in Path
          /\ Len(AppBitsCache \o Slash) = Len(AppBitsCache) + Len(Slash)
          /\ \A j \in 1..Len(AppBitsCache) : (AppBitsCache \o Slash)[j] = AppBitsCache[j]
      BY NamePaths, SlashPath, Concat, Zenon
    <2>3. QED
      BY NamePaths, <2>1, <2>2, SlashPath
  <1>5. 15 + 1 = 16
    OBVIOUS
  <1>6. QED
    BY <1>1, <1>2, <1>3, <1>4, <1>5

-----------------------------------------------------------------------------
(* Keys.                                                                    *)

LEMMA TypePrefixTyped ==
  ASSUME NEW type \in Type
  PROVE  TypePrefix(type) \in Path /\ Len(TypePrefix(type)) \in Nat
  BY TypePrefixes DEF Type

LEMMA PrefixParts ==
  ASSUME NEW b, NEW type \in Type
  PROVE  /\ BlobstorePrefix(b, type) \in Path
         /\ Len(Root(b)) \in Nat
         /\ Len(BlobstorePrefix(b, type)) = Len(Root(b)) + Len(TypePrefix(type))
         /\ \A i \in 1..Len(Root(b)) : BlobstorePrefix(b, type)[i] = Root(b)[i]
         /\ \A i \in 1..Len(TypePrefix(type)) :
              BlobstorePrefix(b, type)[Len(Root(b)) + i] = TypePrefix(type)[i]
  BY RootPath, TypePrefixTyped, Concat, Zenon DEF BlobstorePrefix

LEMMA KeyParts ==
  ASSUME NEW b, NEW type \in Type, NEW id \in Path, Len(id) >= 4
  PROVE  LET P == BlobstorePrefix(b, type)
             key == KeyFor(b, type, id)
         IN  /\ key \in Path
             /\ Len(P) \in Nat /\ Len(id) \in Nat
             /\ Len(key) = Len(P) + 6 + Len(id)
             /\ \A i \in 1..Len(P) : key[i] = P[i]
             /\ \A i \in 1..6 : key[Len(P) + i] = Partition(id)[i]
             /\ \A i \in 1..Len(id) : key[Len(P) + 6 + i] = id[i]
  <1> DEFINE P == BlobstorePrefix(b, type)
             key == KeyFor(b, type, id)
             path == pathFor(id)
  <1>1. /\ path \in Path /\ Len(path) = 6 + Len(id) /\ Len(id) \in Nat
        /\ \A i \in 1..6 : path[i] = Partition(id)[i]
        /\ \A i \in 1..Len(id) : path[6 + i] = id[i]
    BY LongPath DEF Path
  <1>2. P \in Path
    BY PrefixParts
  <1>3. /\ key \in Path /\ Len(key) = Len(P) + Len(path) /\ Len(P) \in Nat
        /\ \A i \in 1..Len(P) : key[i] = P[i]
        /\ \A i \in 1..Len(path) : key[Len(P) + i] = path[i]
    BY <1>1, <1>2, Concat, Zenon DEF KeyFor
  <1> HIDE DEF P, key, path
  <1>4. \A i \in 1..6 : key[Len(P) + i] = Partition(id)[i]
    <2>1. Len(path) = 6 + Len(id) /\ Len(id) \in Nat
      BY <1>1
    <2>2. \A i \in 1..6 : i \in 1..Len(path)
      BY <2>1
    <2>3. QED
      BY <1>1, <1>3, <2>2
  <1>5. \A i \in 1..Len(id) : key[Len(P) + 6 + i] = id[i]
    <2> TAKE i \in 1..Len(id)
    <2>1. 6 + i \in 1..Len(path) /\ Len(P) + 6 + i = Len(P) + (6 + i)
      BY <1>1, <1>3
    <2>2. QED
      BY <1>1, <1>3, <2>1
  <1>6. Len(key) = Len(P) + 6 + Len(id)
    BY <1>1, <1>3
  <1>7. QED
    BY <1>1, <1>3, <1>4, <1>5, <1>6 DEF P, key

\* The third character below the root tells the types apart.
LEMMA ThirdCharacter ==
  ASSUME NEW b, NEW type \in Type, NEW id \in Path, Len(id) >= 4
  PROVE  /\ Len(Root(b)) \in Nat
         /\ Len(Root(b)) + 9 <= Len(KeyFor(b, type, id))
         /\ KeyFor(b, type, id)[Len(Root(b)) + 3] =
              IF type = "droplets" THEN "/" ELSE IF type = "app_stash" THEN "p" ELSE "i"
  <1> DEFINE P == BlobstorePrefix(b, type)
             key == KeyFor(b, type, id)
             root == Root(b)
             prefix == TypePrefix(type)
  <1>1. /\ key \in Path
        /\ Len(P) \in Nat /\ Len(id) \in Nat
        /\ Len(key) = Len(P) + 6 + Len(id)
        /\ \A i \in 1..Len(P) : key[i] = P[i]
        /\ \A i \in 1..6 : key[Len(P) + i] = Partition(id)[i]
    BY KeyParts
  <1>2. /\ Len(root) \in Nat
        /\ Len(P) = Len(root) + Len(prefix)
        /\ \A i \in 1..Len(prefix) : P[Len(root) + i] = prefix[i]
    BY PrefixParts
  <1>3. Partition(id)[3] = "/"
    BY LongPartition
  <1>4. /\ type = "droplets" => Len(prefix) = 0
        /\ type = "app_stash" => Len(prefix) = 15 /\ prefix[3] = "p"
        /\ type = "buildpack_cache" => Len(prefix) = 16 /\ prefix[3] = "i"
    BY TypePrefixes
  <1> HIDE DEF P, key, root, prefix
  <1>5. CASE type = "droplets"
    <2>1. Len(P) = Len(root) /\ Len(root) + 9 <= Len(key)
      BY <1>1, <1>2, <1>4, <1>5
    <2>2. key[Len(P) + 3] = Partition(id)[3]
      BY <1>1
    <2>3. QED
      BY <1>2, <1>3, <1>5, <2>1, <2>2 DEF root, key
  <1>6. CASE type # "droplets"
    <2>1. /\ Len(prefix) \in {15, 16}
          /\ prefix[3] = IF type = "app_stash" THEN "p" ELSE "i"
      BY <1>4, <1>6 DEF Type
    <2>2. /\ Len(root) + 9 <= Len(key)
          /\ Len(root) + 3 \in 1..Len(P) /\ 3 \in 1..Len(prefix)
      <3>1. /\ Len(root) \in Nat /\ Len(P) \in Nat /\ Len(id) \in Nat
            /\ Len(key) = Len(P) + 6 + Len(id) /\ Len(P) = Len(root) + Len(prefix)
        BY <1>1, <1>2
      <3>2. QED
        BY <2>1, <3>1
    <2>3. key[Len(root) + 3] = prefix[3]
      BY <1>1, <1>2, <2>2
    <2>4. QED
      BY <1>2, <1>6, <2>1, <2>2, <2>3 DEF root, key
  <1>7. QED
    BY <1>5, <1>6

\* Two identifiers of a type with one key are one.
LEMMA KeysDiffer ==
  ASSUME NEW b, NEW type \in Type, NEW id \in Path, NEW id2 \in Path,
         Len(id) >= 4, Len(id2) >= 4, KeyFor(b, type, id) = KeyFor(b, type, id2)
  PROVE  id = id2
  <1> DEFINE P == BlobstorePrefix(b, type)
             key == KeyFor(b, type, id)
  <1>1. /\ Len(P) \in Nat /\ Len(id) \in Nat /\ Len(id2) \in Nat
        /\ Len(key) = Len(P) + 6 + Len(id)
        /\ Len(key) = Len(P) + 6 + Len(id2)
        /\ \A i \in 1..Len(id) : key[Len(P) + 6 + i] = id[i]
        /\ \A i \in 1..Len(id2) : key[Len(P) + 6 + i] = id2[i]
    BY KeyParts, SMTT(20)
  <1> HIDE DEF P, key
  <1>2. Len(id) = Len(id2) /\ \A i \in 1..Len(id) : id[i] = id2[i]
    BY <1>1
  <1>3. QED
    BY <1>2, SamePath

LEMMA ResourceTyped ==
  ASSUME NEW r \in Resource
  PROVE  /\ r.type \in Type /\ r.id \in Path /\ Len(r.id) >= 4 /\ r.id[1] # "/"
         /\ r = [type |-> r.type, id |-> r.id]
  BY URLAssumption

\* Every resource has a key of its own.
LEMMA OwnKeys ==
  ASSUME NEW b, NEW r \in Resource, NEW s \in Resource,
         KeyFor(b, r.type, r.id) = KeyFor(b, s.type, s.id)
  PROVE  r = s
  <1>1. /\ KeyFor(b, r.type, r.id)[Len(Root(b)) + 3] =
             IF r.type = "droplets" THEN "/" ELSE IF r.type = "app_stash" THEN "p" ELSE "i"
        /\ KeyFor(b, s.type, s.id)[Len(Root(b)) + 3] =
             IF s.type = "droplets" THEN "/" ELSE IF s.type = "app_stash" THEN "p" ELSE "i"
    BY ResourceTyped, ThirdCharacter
  <1>2. r.type = s.type
    BY <1>1, ResourceTyped DEF Type
  <1>3. r.id = s.id
    BY <1>2, ResourceTyped, KeysDiffer
  <1>4. QED
    BY <1>2, <1>3, ResourceTyped

-----------------------------------------------------------------------------
(* Directories.                                                             *)

\* The directories of an identifier are those of its prefixes.
LEMMA SamePartition ==
  ASSUME NEW a \in Path, NEW id \in Path, Len(a) >= 4, IsPrefix(a, id)
  PROVE  Len(id) >= 4 /\ \A i \in 1..6 : Partition(a)[i] = Partition(id)[i]
  <1>1. Len(id) >= 4 /\ \A i \in 1..4 : a[i] = id[i]
    BY PrefixElements DEF Path
  <1>2. \A i \in 1..6 : i \in {1, 2, 3, 4, 5, 6}
    OBVIOUS
  <1>3. \A i \in {1, 2, 3, 4, 5, 6} : Partition(a)[i] = Partition(id)[i]
    BY <1>1, LongPartition
  <1>4. QED
    BY <1>1, <1>2, <1>3

\* A prefix of the identifier gives a prefix of the key, and the other way
\* around.
LEMMA PrefixOfKey ==
  ASSUME NEW b, NEW type \in Type, NEW a \in Path, NEW id \in Path,
         Len(a) >= 4, Len(id) >= 4
  PROVE  IsPrefix(KeyFor(b, type, a), KeyFor(b, type, id)) <=> IsPrefix(a, id)
  <1> DEFINE P == BlobstorePrefix(b, type)
             path == KeyFor(b, type, a)
             key == KeyFor(b, type, id)
  <1>1. /\ path \in Path /\ Len(P) \in Nat /\ Len(a) \in Nat
        /\ Len(path) = Len(P) + 6 + Len(a)
        /\ \A i \in 1..Len(P) : path[i] = P[i]
        /\ \A i \in 1..6 : path[Len(P) + i] = Partition(a)[i]
        /\ \A i \in 1..Len(a) : path[Len(P) + 6 + i] = a[i]
    BY KeyParts
  <1>2. /\ key \in Path /\ Len(id) \in Nat
        /\ Len(key) = Len(P) + 6 + Len(id)
        /\ \A i \in 1..Len(P) : key[i] = P[i]
        /\ \A i \in 1..6 : key[Len(P) + i] = Partition(id)[i]
        /\ \A i \in 1..Len(id) : key[Len(P) + 6 + i] = id[i]
    BY KeyParts
  <1> HIDE DEF P, path, key
  <1>3. ASSUME IsPrefix(a, id) PROVE IsPrefix(path, key)
    <2>1. Len(a) <= Len(id) /\ \A i \in 1..Len(a) : a[i] = id[i]
      BY <1>3, PrefixElements
    <2>2. \A i \in 1..6 : Partition(a)[i] = Partition(id)[i]
      BY <1>3, SamePartition
    <2>3. ASSUME NEW i \in 1..Len(path) PROVE path[i] = key[i]
      <3> DEFINE n == Len(P)
      <3>1. n \in Nat /\ Len(a) \in Nat /\ Len(path) = n + 6 + Len(a)
        BY <1>1
      <3> HIDE DEF n
      <3>2. \/ i \in 1..n
            \/ \E j \in 1..6 : i = n + j
            \/ \E j \in 1..Len(a) : i = n + 6 + j
        <4>1. i \in Int /\ 1 <= i /\ i <= n + 6 + Len(a)
          BY <3>1
        <4>2. CASE i <= n
          BY <3>1, <4>1, <4>2
        <4>3. CASE n < i /\ i <= n + 6
          <5>1. i - n \in 1..6 /\ i = n + (i - n)
            BY <3>1, <4>1, <4>3
          <5>2. QED
            BY <5>1
        <4>4. CASE n + 6 < i
          <5>1. i - n - 6 \in 1..Len(a) /\ i = n + 6 + (i - n - 6)
            BY <3>1, <4>1, <4>4
          <5>2. QED
            BY <5>1
        <4>5. QED
          BY <3>1, <4>1, <4>2, <4>3, <4>4
      <3>3. CASE i \in 1..n
        BY <1>1, <1>2, <3>3 DEF n
      <3>4. ASSUME NEW j \in 1..6, i = n + j PROVE path[i] = key[i]
        <4>1. path[n + j] = Partition(a)[j] /\ key[n + j] = Partition(id)[j]
          BY <1>1, <1>2 DEF n
        <4>2. QED
          BY <2>2, <3>4, <4>1
      <3>5. ASSUME NEW j \in 1..Len(a), i = n + 6 + j PROVE path[i] = key[i]
        <4>1. j \in 1..Len(id)
          BY <1>2, <2>1, <3>1
        <4>2. path[n + 6 + j] = a[j] /\ key[n + 6 + j] = id[j]
          BY <1>1, <1>2, <4>1 DEF n
        <4>3. QED
          BY <2>1, <3>5, <4>2
      <3>6. QED
        BY <3>2, <3>3, <3>4, <3>5
    <2>4. Len(path) <= Len(key)
      BY <1>1, <1>2, <2>1
    <2>5. QED
      BY <1>1, <1>2, <2>3, <2>4, PrefixElements
  <1>4. ASSUME IsPrefix(path, key) PROVE IsPrefix(a, id)
    <2>1. Len(path) <= Len(key) /\ \A i \in 1..Len(path) : path[i] = key[i]
      BY <1>1, <1>2, <1>4, PrefixElements
    <2>2. Len(a) <= Len(id)
      BY <1>1, <1>2, <2>1
    <2>3. ASSUME NEW i \in 1..Len(a) PROVE a[i] = id[i]
      <3>1. i \in 1..Len(id) /\ Len(P) + 6 + i \in 1..Len(path)
        BY <1>1, <1>2, <2>2
      <3>2. QED
        BY <1>1, <1>2, <2>1, <3>1
    <2>4. QED
      BY <2>2, <2>3, PrefixElements
  <1>5. QED
    BY <1>3, <1>4 DEF path, key

LEMMA BelowDirectory ==
  ASSUME NEW s \in Path, NEW t \in Path
  PROVE  /\ s \o Slash \in Path /\ Len(s \o Slash) = Len(s) + 1 /\ Len(s) \in Nat
         /\ \A i \in 1..Len(s) : (s \o Slash)[i] = s[i]
         /\ (s \o Slash)[Len(s) + 1] = "/"
         /\ IsPrefix(s \o Slash, t) <=>
              IsPrefix(s, t) /\ Len(s) < Len(t) /\ t[Len(s) + 1] = "/"
  <1> DEFINE below == s \o Slash
  <1>1. /\ below \in Path /\ Len(below) = Len(s) + Len(Slash)
        /\ \A i \in 1..Len(s) : below[i] = s[i]
        /\ \A i \in 1..Len(Slash) : below[Len(s) + i] = Slash[i]
    BY SlashPath, Concat, Zenon
  <1>2. Len(s) \in Nat /\ Len(t) \in Nat
    BY DEF Path
  <1> HIDE DEF below
  <1>3. Len(below) = Len(s) + 1 /\ below[Len(s) + 1] = "/"
    BY <1>1, <1>2, SlashPath
  <1>4. IsPrefix(below, t) <=> Len(below) <= Len(t) /\ \A i \in 1..Len(below) : below[i] = t[i]
    BY <1>1, PrefixElements
  <1>5. IsPrefix(s, t) <=> Len(s) <= Len(t) /\ \A i \in 1..Len(s) : s[i] = t[i]
    BY PrefixElements
  <1>6. IsPrefix(below, t) <=> IsPrefix(s, t) /\ Len(s) < Len(t) /\ t[Len(s) + 1] = "/"
    BY <1>1, <1>2, <1>3, <1>4, <1>5
  <1>7. QED
    BY <1>1, <1>2, <1>3, <1>6 DEF below

LEMMA SlashOfKey ==
  ASSUME NEW b, NEW type \in Type, NEW a \in Path, NEW id \in Path,
         Len(a) >= 4, Len(id) >= 4
  PROVE  IsPrefix(KeyFor(b, type, a) \o Slash, KeyFor(b, type, id)) <=>
           IsPrefix(a \o Slash, id)
  <1> DEFINE n == Len(BlobstorePrefix(b, type)) + 6
             path == KeyFor(b, type, a)
             key == KeyFor(b, type, id)
  <1>1. /\ path \in Path /\ key \in Path /\ n \in Nat /\ Len(a) \in Nat /\ Len(id) \in Nat
        /\ Len(path) = n + Len(a) /\ Len(key) = n + Len(id)
        /\ \A i \in 1..Len(id) : key[n + i] = id[i]
    BY KeyParts
  <1>2. IsPrefix(path, key) <=> IsPrefix(a, id)
    BY PrefixOfKey
  <1> HIDE DEF n, path, key
  <1>3. IsPrefix(path \o Slash, key) <=>
          IsPrefix(path, key) /\ Len(path) < Len(key) /\ key[Len(path) + 1] = "/"
    BY <1>1, BelowDirectory
  <1>4. IsPrefix(a \o Slash, id) <=>
          IsPrefix(a, id) /\ Len(a) < Len(id) /\ id[Len(a) + 1] = "/"
    BY BelowDirectory
  <1>5. Len(a) < Len(id) => key[Len(path) + 1] = id[Len(a) + 1]
    <2> HAVE Len(a) < Len(id)
    <2>1. Len(a) + 1 \in 1..Len(id) /\ Len(path) + 1 = n + (Len(a) + 1)
      BY <1>1
    <2>2. QED
      BY <1>1, <2>1
  <1>6. Len(path) < Len(key) <=> Len(a) < Len(id)
    BY <1>1
  <1>7. QED
    BY <1>2, <1>3, <1>4, <1>5, <1>6 DEF path, key

LEMMA AppTyped ==
  ASSUME NEW a \in App
  PROVE  a \in Path /\ Len(a) >= 4 /\ a # <<>> /\ \A b \in App : Len(a) = Len(b)
  BY URLAssumption DEF Path

\* The entries of an app are the ones below its GUID; no other begins with it.
LEMMA EntriesOfApps ==
  ASSUME NEW a \in App, NEW r \in Resource, r.type = "buildpack_cache"
  PROVE  IsPrefix(a, r.id) <=> EntryOf(a, r)
  <1>1. a \in Path /\ r.id \in Path
    BY AppTyped, ResourceTyped
  <1>2. EntryOf(a, r) => IsPrefix(a, r.id)
    BY <1>1, BelowDirectory DEF EntryOf
  <1>3. ASSUME IsPrefix(a, r.id) PROVE EntryOf(a, r)
    <2>1. PICK b \in App : EntryOf(b, r)
      BY URLAssumption
    <2>2. b \in Path /\ Len(a) = Len(b) /\ IsPrefix(b, r.id)
      BY <1>1, <2>1, AppTyped, BelowDirectory DEF EntryOf
    <2>3. \A i \in 1..Len(a) : a[i] = b[i]
      BY <1>1, <1>3, <2>2, PrefixElements
    <2>4. a = b
      BY <1>1, <2>2, <2>3, SamePath
    <2>5. QED
      BY <2>1, <2>4
  <1>4. QED
    BY <1>2, <1>3

\* A key of another type is not below a directory of the buildpack_cache.
LEMMA OtherTypesAreElsewhere ==
  ASSUME NEW b, NEW r \in Resource, r.type # "buildpack_cache", NEW path \in Path,
         Len(path) >= Len(Root(b)) + 3, path[Len(Root(b)) + 3] = "i"
  PROVE  ~IsPrefix(path, KeyFor(b, r.type, r.id))
  <1> DEFINE key == KeyFor(b, r.type, r.id)
             n == Len(Root(b))
  <1>1. key \in Path /\ n \in Nat
    BY KeyParts, ResourceTyped, ThirdCharacter
  <1>2. key[n + 3] # "i"
    <2>1. r.type \in Type /\ r.id \in Path /\ Len(r.id) >= 4
      BY ResourceTyped
    <2>2. key[n + 3] = IF r.type = "droplets" THEN "/" ELSE IF r.type = "app_stash" THEN "p" ELSE "i"
      BY <2>1, ThirdCharacter
    <2>3. QED
      BY <2>1, <2>2 DEF Type
  <1> HIDE DEF key, n
  <1>3. Len(path) \in Nat /\ Len(path) >= n + 3 /\ path[n + 3] = "i"
    BY DEF Path, n
  <1>4. n + 3 \in 1..Len(path)
    BY <1>1, <1>3
  <1>5. QED
    BY <1>1, <1>2, <1>3, <1>4, PrefixElements DEF key

\* The directory of an app holds the entries of the app.
LEMMA InCache ==
  ASSUME NEW b, NEW a \in App, NEW r \in Resource
  PROVE  InDir(b, "buildpack_cache", a, KeyFor(b, r.type, r.id)) <=> EntryOf(a, r)
  <1> DEFINE path == KeyFor(b, "buildpack_cache", a)
             key == KeyFor(b, r.type, r.id)
  <1>1. /\ a \in Path /\ Len(a) >= 4 /\ a # <<>>
        /\ r.id \in Path /\ Len(r.id) >= 4 /\ r.type \in Type
    BY AppTyped, ResourceTyped
  <1>2. "buildpack_cache" \in Type
    BY DEF Type
  <1>3. path \in Path /\ key \in Path
    BY <1>1, <1>2, KeyParts
  <1>4. IsPrefix(path \o Slash, key) => IsPrefix(path, key)
    BY <1>3, BelowDirectory
  <1>5. CASE r.type = "buildpack_cache"
    <2>1. IsPrefix(path, key) <=> IsPrefix(a, r.id)
      BY <1>1, <1>5, PrefixOfKey
    <2>2. IsPrefix(path \o Slash, key) <=> IsPrefix(a \o Slash, r.id)
      BY <1>1, <1>5, SlashOfKey
    <2>3. IsPrefix(a, r.id) <=> EntryOf(a, r)
      BY <1>5, EntriesOfApps
    <2>4. EntryOf(a, r) <=> IsPrefix(a \o Slash, r.id)
      BY <1>5 DEF EntryOf
    <2>5. QED
      BY <1>1, <2>1, <2>2, <2>3, <2>4 DEF InDir
  <1>6. CASE r.type # "buildpack_cache"
    <2>1. Len(path) >= Len(Root(b)) + 3 /\ path[Len(Root(b)) + 3] = "i"
      <3>1. /\ Len(Root(b)) \in Nat /\ Len(Root(b)) + 9 <= Len(path)
            /\ path[Len(Root(b)) + 3] = "i"
        BY <1>1, <1>2, ThirdCharacter
      <3>2. Len(path) \in Nat
        BY <1>3 DEF Path
      <3>3. QED
        BY <3>1, <3>2
    <2>2. ~IsPrefix(path, key)
      BY <1>3, <1>6, <2>1, OtherTypesAreElsewhere
    <2>3. QED
      BY <1>4, <1>6, <2>2 DEF InDir, EntryOf
  <1>7. QED
    BY <1>5, <1>6

\* The directory of them all holds the buildpack_cache entries.
LEMMA InCaches ==
  ASSUME NEW b, NEW r \in Resource
  PROVE  InDir(b, "buildpack_cache", <<>>, KeyFor(b, r.type, r.id)) <=>
           r.type = "buildpack_cache"
  <1> DEFINE P == BlobstorePrefix(b, "buildpack_cache")
             path == KeyFor(b, "buildpack_cache", <<>>)
             key == KeyFor(b, r.type, r.id)
  <1>1. r.id \in Path /\ Len(r.id) >= 4 /\ r.type \in Type /\ "buildpack_cache" \in Type
    BY ResourceTyped DEF Type
  <1>2. P \in Path /\ key \in Path
    BY <1>1, PrefixParts, KeyParts
  <1>3. path = P
    <2>1. pathFor(<<>>) = <<>> \o <<>>
      BY DEF pathFor, Partition
    <2>2. pathFor(<<>>) = <<>>
      BY <2>1
    <2>3. QED
      BY <1>2, <2>2 DEF KeyFor, Path
  <1>4. IsPrefix(path \o Slash, key) => IsPrefix(path, key)
    BY <1>2, <1>3, BelowDirectory
  <1>5. InDir(b, "buildpack_cache", <<>>, key) <=> IsPrefix(P, key)
    BY <1>3, <1>4 DEF InDir
  <1>6. CASE r.type = "buildpack_cache"
    <2> DEFINE id == r.id
               cached == KeyFor(b, "buildpack_cache", id)
    <2>1. id \in Path /\ Len(id) >= 4 /\ key = cached
      BY <1>1, <1>6
    <2> HIDE DEF id, key
    <2>2. /\ Len(P) \in Nat /\ Len(id) \in Nat
          /\ Len(cached) = Len(P) + 6 + Len(id)
          /\ \A i \in 1..Len(P) : cached[i] = P[i]
      BY <1>1, <2>1, KeyParts, SMTT(20)
    <2> HIDE DEF P, cached
    <2>3. Len(P) <= Len(cached)
      BY <2>2
    <2>4. IsPrefix(P, key)
      BY <1>2, <2>1, <2>2, <2>3, PrefixElements
    <2>5. QED
      BY <1>5, <1>6, <2>4 DEF key
  <1>7. CASE r.type # "buildpack_cache"
    <2>1. Len(P) >= Len(Root(b)) + 3 /\ P[Len(Root(b)) + 3] = "i"
      <3>1. /\ Len(Root(b)) \in Nat
            /\ Len(P) = Len(Root(b)) + Len(TypePrefix("buildpack_cache"))
            /\ \A i \in 1..Len(TypePrefix("buildpack_cache")) :
                 P[Len(Root(b)) + i] = TypePrefix("buildpack_cache")[i]
        BY <1>1, PrefixParts
      <3> HIDE DEF P
      <3>2. 3 \in 1..16 /\ Len(TypePrefix("buildpack_cache")) = 16
        BY TypePrefixes
      <3>3. Len(P) = Len(Root(b)) + 16 /\ P[Len(Root(b)) + 3] = "i"
        BY <3>1, <3>2, TypePrefixes
      <3>4. QED
        BY <3>1, <3>3
    <2>2. QED
      BY <1>2, <1>5, <1>7, <2>1, OtherTypesAreElsewhere
  <1>8. QED
    BY <1>6, <1>7

-----------------------------------------------------------------------------
(* Signed keys.                                                             *)

\* Nothing is stored under the misnamed keys.
LEMMA MisnamedAreEmpty ==
  ASSUME NEW r \in Resource, r.type = "buildpack_cache", NEW s \in Resource
  PROVE  /\ SignedKey("objects", r.type, r.id) \in Path
         /\ SignedKey("objects", r.type, r.id) # KeyFor("objects", s.type, s.id)
  <1> DEFINE signed == SignedKey("objects", r.type, r.id)
             path == pathFor(r.id)
             key == KeyFor("objects", s.type, s.id)
             P == BlobstorePrefix("objects", s.type)
  <1>1. signed = BuildpackCache \o path
    BY DEF SignedKey, SignerPrefix
  <1>2. BuildpackCache \in Path /\ Len(BuildpackCache) = 15 /\ BuildpackCache[3] = "i"
    BY NamePaths
  <1>3. /\ r.id \in Path /\ Len(r.id) >= 4 /\ r.id[1] # "/"
        /\ s.type \in Type /\ s.id \in Path /\ Len(s.id) >= 4
    BY ResourceTyped
  <1>4. /\ path \in Path /\ Len(path) = 6 + Len(r.id) /\ Len(r.id) \in Nat
        /\ path[1] = r.id[1]
    <2>1. /\ path \in Path /\ Len(path) = 6 + Len(r.id)
          /\ \A i \in 1..6 : path[i] = Partition(r.id)[i]
      BY <1>3, LongPath
    <2>2. Partition(r.id)[1] = r.id[1] /\ 1 \in 1..6
      BY <1>3, LongPartition
    <2>3. Len(r.id) \in Nat
      BY <1>3 DEF Path
    <2>4. QED
      BY <2>1, <2>2, <2>3
  <1>5. /\ signed \in Path
        /\ \A i \in 1..Len(BuildpackCache) : signed[i] = BuildpackCache[i]
        /\ \A i \in 1..Len(path) : signed[Len(BuildpackCache) + i] = path[i]
    <2> HIDE DEF path
    <2>1. BuildpackCache \in Path /\ path \in Path
      BY <1>2, <1>4
    <2> DEFINE whole == BuildpackCache \o path
    <2>2. /\ whole \in Path
          /\ \A i \in 1..Len(BuildpackCache) : whole[i] = BuildpackCache[i]
          /\ \A i \in 1..Len(path) : whole[Len(BuildpackCache) + i] = path[i]
      BY <2>1, Concat, Zenon
    <2> HIDE DEF whole
    <2>3. signed = whole
      BY <1>1 DEF whole
    <2>4. QED
      BY <2>2, <2>3
  <1> HIDE DEF signed, path
  <1>6. signed[3] = "i" /\ signed[16] # "/"
    <2>1. 3 \in 1..Len(BuildpackCache) /\ 1 \in 1..Len(path) /\ Len(BuildpackCache) + 1 = 16
      BY <1>2, <1>4
    <2>2. QED
      BY <1>2, <1>3, <1>4, <1>5, <2>1
  <1>7. Root("objects") = <<>> /\ Len(Root("objects")) = 0
    BY DEF Root
  <1>8. CASE s.type # "buildpack_cache"
    <2>1. key[3] # "i"
      <3>1. key[Len(Root("objects")) + 3] =
              IF s.type = "droplets" THEN "/" ELSE IF s.type = "app_stash" THEN "p" ELSE "i"
        BY <1>3, ThirdCharacter
      <3>2. QED
        BY <1>3, <1>7, <1>8, <3>1 DEF Type
    <2>2. QED
      BY <1>5, <1>6, <2>1 DEF signed
  <1>9. CASE s.type = "buildpack_cache"
    <2>1. /\ Len(P) = Len(Root("objects")) + Len(TypePrefix(s.type))
          /\ \A i \in 1..Len(TypePrefix(s.type)) :
               P[Len(Root("objects")) + i] = TypePrefix(s.type)[i]
      BY <1>3, PrefixParts
    <2>2. Len(P) = 16 /\ P[16] = "/"
      BY <1>7, <1>9, <2>1, TypePrefixes
    <2>3. \A i \in 1..Len(P) : key[i] = P[i]
      BY <1>3, KeyParts
    <2>4. key[16] = "/"
      BY <2>2, <2>3
    <2>5. QED
      BY <1>5, <1>6, <2>4 DEF signed
  <1>10. QED
    BY <1>8, <1>9

\* But for those, the key of a URL is the key of its resource.
LEMMA SignedKeys ==
  ASSUME NEW b \in Backend, NEW r \in Resource
  PROVE  /\ KeyFor(b, r.type, r.id) \in Path
         /\ SignedKey(b, r.type, r.id) \in Path
         /\ ~(b = "objects" /\ r.type = "buildpack_cache") =>
              SignedKey(b, r.type, r.id) = KeyFor(b, r.type, r.id)
  <1>1. KeyFor(b, r.type, r.id) \in Path
    BY ResourceTyped, KeyParts
  <1>2. ~(b = "objects" /\ r.type = "buildpack_cache") =>
          SignedKey(b, r.type, r.id) = KeyFor(b, r.type, r.id)
    BY DEF SignedKey, SignerPrefix, KeyFor
  <1>3. QED
    BY <1>1, <1>2, MisnamedAreEmpty

-----------------------------------------------------------------------------
(* The invariant.                                                           *)

\* A URL expires within an hour of when it was asked for, two seconds at most
\* before the hour is over.
Signed(u) ==
  /\ u.expires <= u.since + Hour
  /\ u.since + Hour < u.expires + 2 * Second

Inv == TypeOK /\ \A u \in urls : Signed(u)

\* Cutting to seconds takes less than a second.
LEMMA UnixBounds ==
  ASSUME NEW t \in Nat
  PROVE  Unix(t) \in Nat /\ Unix(t) <= t /\ t < Unix(t) + Second
  <1>1. Second \in Nat /\ Second > 0
    BY URLAssumption
  <1>2. t % Second \in Nat /\ t % Second < Second /\ t % Second <= t
    BY <1>1
  <1>3. QED
    BY <1>1, <1>2 DEF Unix

LEMMA ExpiryBounds ==
  ASSUME now \in Nat, NEW verb, NEW e \in Expiries(verb)
  PROVE  e \in Nat /\ e <= now + Hour /\ now + Hour < e + 2 * Second
  <1>1. Hour \in Nat /\ Second \in Nat /\ Second > 0
    BY URLAssumption
  <1>2. /\ now + Hour \in Nat /\ Unix(now + Hour) \in Nat
        /\ Unix(now + Hour) <= now + Hour /\ now + Hour < Unix(now + Hour) + Second
    BY <1>1, UnixBounds
  <1>3. \E s \in {0, Second} \cap 0..Unix(now + Hour) : e = Unix(now + Hour) - s
    BY <1>1, <1>2 DEF Expiries
  <1>4. QED
    BY <1>1, <1>2, <1>3

LEMMA KeysTyped ==
  ASSUME TypeOK, NEW r \in Resource
  PROVE  KeyOf(r) \in Key(backend) /\ KeyOf(r) \in Path
  BY SignedKeys DEF TypeOK, KeyOf, Key

LEMMA InvInit == Init => Inv
  <1> SUFFICES ASSUME Init PROVE Inv
    OBVIOUS
  <1>1. 0 \in 0..MaxTime
    BY URLAssumption
  <1>2. QED
    BY <1>1 DEF Init, Inv, TypeOK

\* URLs do not change.
LEMMA UnchangedURLs ==
  ASSUME Inv, UNCHANGED urls
  PROVE  \A u \in urls' : Signed(u)'
  BY DEF Inv, Signed

\* A write below a key.
LEMMA WriteKeepsInv ==
  ASSUME Inv, NEW k \in Key(backend), NEW c \in Content \cup Parcel \cup {Absent},
         bucket' = [bucket EXCEPT ![k] = c], UNCHANGED <<backend, urls, now>>
  PROVE  Inv'
  <1>1. \A u \in urls' : Signed(u)'
    BY UnchangedURLs
  <1>2. TypeOK'
    BY DEF Inv, TypeOK
  <1>3. QED
    BY <1>1, <1>2 DEF Inv

\* What a PUT brings is stored for a resource.
LEMMA StoreKeepsInv ==
  ASSUME Inv, NEW r \in Resource, NEW cs \in SUBSET (Content \cup Parcel), Store(r, cs),
         UNCHANGED <<backend, urls, now>>
  PROVE  Inv'
  <1>1. PICK s \in Targets(r), c \in cs \cup {bucket[KeyOf(t)] : t \in Copyable(r)} :
          bucket' = [bucket EXCEPT ![KeyOf(s)] = c]
    BY DEF Store
  <1>2. s \in Resource
    BY <1>1 DEF Targets, Versions
  <1>3. c \in Content \cup Parcel \cup {Absent}
    <2>1. \A t \in Copyable(r) : bucket[KeyOf(t)] \in Content \cup Parcel \cup {Absent}
      BY KeysTyped DEF Copyable, Inv, TypeOK
    <2>2. QED
      BY <1>1, <2>1
  <1>4. KeyOf(s) \in Key(backend)
    BY <1>2, KeysTyped DEF Inv
  <1>5. QED
    BY <1>1, <1>3, <1>4, WriteKeepsInv

LEMMA SignKeepsInv ==
  ASSUME Inv, NEW r \in Resource, NEW verb \in {"get", "put"}, Sign(r, verb)
  PROVE  Inv'
  <1>1. PICK e \in Expiries(verb) :
          urls' = urls \cup {[resource |-> r, verb |-> verb, since |-> now, expires |-> e]}
    BY DEF Sign
  <1> DEFINE u == [resource |-> r, verb |-> verb, since |-> now, expires |-> e]
  <1>2. now \in Nat /\ backend \in Backend /\ UNCHANGED <<backend, bucket, now>>
    BY URLAssumption DEF Inv, TypeOK, Sign
  <1>3. e \in Nat /\ e <= now + Hour /\ now + Hour < e + 2 * Second
    BY <1>2, ExpiryBounds
  <1>5. u \in URL
    BY <1>2, <1>3 DEF URL
  <1>6. TypeOK'
    BY <1>1, <1>2, <1>5 DEF Inv, TypeOK
  <1>7. Signed(u)
    BY <1>3 DEF Signed
  <1>8. \A v \in urls' : Signed(v)
    BY <1>1, <1>7 DEF Inv
  <1>9. \A v : Signed(v)' <=> Signed(v)
    BY <1>2 DEF Signed
  <1>10. QED
    BY <1>6, <1>8, <1>9 DEF Inv

LEMMA InvNext == Inv /\ [Next]_vars => Inv'
  <1> SUFFICES ASSUME Inv, [Next]_vars PROVE Inv'
    OBVIOUS
  <1>1. ASSUME NEW r \in Resource, Put(r) PROVE Inv'
    BY <1>1, StoreKeepsInv DEF Put
  <1>2. ASSUME NEW r \in Resource, Delete(r) PROVE Inv'
    BY <1>2, KeysTyped, WriteKeepsInv DEF Delete, Inv
  <1>3. ASSUME NEW dir, DeleteDir(dir) PROVE Inv'
    <2>1. UNCHANGED <<backend, urls, now>>
      BY <1>3 DEF DeleteDir
    <2>2. TypeOK'
      BY <1>3, <2>1 DEF DeleteDir, Inv, TypeOK
    <2>3. QED
      BY <2>1, <2>2, UnchangedURLs DEF Inv
  <1>4. ASSUME NEW r \in Resource, NEW verb \in {"get", "put"}, Sign(r, verb) PROVE Inv'
    BY <1>4, SignKeepsInv
  <1>5. ASSUME NEW u \in urls, Upload(u) PROVE Inv'
    <2>1. u.resource \in Resource
      BY DEF Inv, TypeOK, URL
    <2>2. QED
      BY <1>5, <2>1, StoreKeepsInv DEF Upload
  <1>6. CASE Tick
    <2>1. UNCHANGED <<backend, bucket, urls>> /\ now' \in 0..MaxTime
      BY <1>6, URLAssumption DEF Tick, Inv, TypeOK
    <2>2. TypeOK'
      BY <2>1 DEF Inv, TypeOK
    <2>3. QED
      BY <2>1, <2>2, UnchangedURLs DEF Inv
  <1>7. CASE UNCHANGED vars
    <2>1. TypeOK'
      BY <1>7 DEF Inv, TypeOK, vars
    <2>2. QED
      BY <1>7, <2>1, UnchangedURLs DEF Inv, vars
  <1>8. QED
    BY <1>1, <1>2, <1>3, <1>4, <1>5, <1>6, <1>7 DEF Next

LEMMA Invariance == Spec => []Inv
  BY InvInit, InvNext, PTL DEF Spec

\* The bucket, the URLs and the clock keep their types.
THEOREM TypeCorrect == Spec => []TypeOK
  <1>1. Inv => TypeOK
    BY DEF Inv
  <1>2. QED
    BY <1>1, Invariance, PTL

-----------------------------------------------------------------------------
(* Downloads.                                                               *)

LEMMA DownloadOf ==
  ASSUME Inv, NEW u \in urls, u.verb = "get"
  PROVE  /\ Download(u) \in {bucket[KeyOf(u.resource)], Absent, Refused}
         /\ now > u.since + Hour => Download(u) = Refused
         /\ now + 2 * Second <= u.since + Hour /\ ~Misnamed(u.resource) =>
              Download(u) = bucket[KeyOf(u.resource)]
  <1> DEFINE r == u.resource
  <1>1. /\ r \in Resource /\ u.since \in Nat /\ u.expires \in Nat /\ backend \in Backend
        /\ now \in Nat /\ Hour \in Nat /\ Second \in Nat
        /\ u.expires <= u.since + Hour /\ u.since + Hour < u.expires + 2 * Second
    BY URLAssumption DEF Inv, TypeOK, URL, Signed
  <1> DEFINE key == KeyOfURL(r)
  <1>2. key = IF SignedLocally("get") THEN KeyOf(r) ELSE SignedKey(backend, r.type, r.id)
    BY DEF KeyOfURL
  <1>3. KeyOf(r) \in Key(backend)
    BY <1>1, KeysTyped DEF Inv
  <1>4. ~Misnamed(r) => key = KeyOf(r)
    BY <1>1, <1>2, SignedKeys DEF Misnamed, KeyOf
  <1>5. Misnamed(r) => key \notin Key(backend)
    <2> SUFFICES ASSUME Misnamed(r) PROVE key \notin Key(backend)
      OBVIOUS
    <2>1. backend = "objects" /\ r.type = "buildpack_cache" /\ ~SignedLocally("get")
      BY DEF Misnamed, SignedLocally
    <2>2. key = SignedKey("objects", r.type, r.id)
      BY <1>2, <2>1
    <2>3. \A s \in Resource : key # KeyFor("objects", s.type, s.id)
      BY <1>1, <2>1, <2>2, MisnamedAreEmpty
    <2>4. QED
      BY <2>1, <2>3 DEF Key
  <1>6. SignatureValid(u) <=> now <= u.expires
    BY DEF SignatureValid
  <1>a. Download(u) = IF ~SignatureValid(u) THEN Refused
                    ELSE IF key \in Key(backend) THEN bucket[key] ELSE Absent
    BY DEF Download
  <1> HIDE DEF r, key
  <1>7. Download(u) \in {bucket[KeyOf(r)], Absent, Refused}
    BY <1>3, <1>4, <1>5, <1>a
  <1>8. now > u.since + Hour => Download(u) = Refused
    <2>1. now > u.since + Hour => ~(now <= u.expires)
      BY <1>1
    <2>2. QED
      BY <1>6, <1>a, <2>1
  <1>9. now + 2 * Second <= u.since + Hour /\ ~Misnamed(r) =>
          Download(u) = bucket[KeyOf(r)]
    <2>1. now + 2 * Second <= u.since + Hour => now <= u.expires
      BY <1>1
    <2>2. QED
      BY <1>3, <1>4, <1>6, <1>a, <2>1
  <1>10. QED
    BY <1>7, <1>8, <1>9 DEF r

\* What a URL downloads is the resource it was signed for, nothing after the
\* hour, and before that the resource as it is (SignedKey, SignatureValid).
THEOREM DownloadsCorrect == Spec => []DownloadsAreExact
  <1>1. Inv => DownloadsAreExact
    BY DownloadOf DEF DownloadsAreExact
  <1>2. QED
    BY <1>1, Invariance, PTL

-----------------------------------------------------------------------------
(* Refinement of Shelves.                                                   *)

OnShelf == [r \in Resource |-> bucket[KeyOf(r)]]

Granted == {GrantOf(u) : u \in {v \in urls : v.verb = "put"}}

\* A write of a resource's key fills its shelf and no other.
LEMMA FillsShelf ==
  ASSUME Inv, NEW r \in Resource, NEW c,
         bucket' = [bucket EXCEPT ![KeyOf(r)] = c], backend' = backend
  PROVE  OnShelf' = [OnShelf EXCEPT ![r] = c]
  <1>1. bucket \in [Key(backend) -> Content \cup Parcel \cup {Absent}]
    BY DEF Inv, TypeOK
  <1>2. ASSUME NEW s \in Resource
        PROVE  bucket'[KeyOf(s)'] = IF s = r THEN c ELSE bucket[KeyOf(s)]
    <2>1. KeyOf(s)' = KeyOf(s) /\ KeyOf(s) \in Key(backend) /\ KeyOf(r) \in Key(backend)
      BY KeysTyped DEF KeyOf, Inv
    <2>2. KeyOf(s) = KeyOf(r) => s = r
      BY OwnKeys DEF KeyOf
    <2>3. QED
      BY <1>1, <2>1, <2>2
  <1>3. QED
    BY <1>2 DEF OnShelf

\* So does the deletion of a directory: it clears the shelves of the
\* resources in it.
LEMMA ClearsShelves ==
  ASSUME Inv, NEW dir, NEW rs, DeleteDir(dir),
         \A r \in Resource : InDir(backend, "buildpack_cache", dir, KeyOf(r)) <=> r \in rs
  PROVE  OnShelf' = [r \in Resource |-> IF r \in rs THEN Absent ELSE OnShelf[r]]
  <1>1. ASSUME NEW r \in Resource
        PROVE  bucket'[KeyOf(r)'] = IF r \in rs THEN Absent ELSE bucket[KeyOf(r)]
    <2>1. KeyOf(r)' = KeyOf(r) /\ KeyOf(r) \in Key(backend)
      BY KeysTyped DEF KeyOf, Inv, DeleteDir
    <2>2. QED
      BY <2>1 DEF DeleteDir
  <1>2. QED
    BY <1>1 DEF OnShelf

LEMMA ShelfTerms ==
  /\ Shelf!SInit <=> OnShelf = [r \in Resource |-> Absent] /\ Granted = {} /\ now = 0
  /\ Shelf!svars = <<OnShelf, Granted, now>>
  /\ \A cs : \A r \in Resource : Shelf!Fill(r, cs) <=>
       /\ \/ \E s \in {r} \cup Versions(r), c \in cs : OnShelf' = [OnShelf EXCEPT ![s] = c]
          \/ \E t \in {s \in Resource : s.type = r.type} :
               OnShelf[t] # Absent /\ OnShelf' = [OnShelf EXCEPT ![r] = OnShelf[t]]
       /\ UNCHANGED <<Granted, now>>
  /\ \A rs : Shelf!Clear(rs) <=>
       /\ OnShelf' = [r \in Resource |-> IF r \in rs THEN Absent ELSE OnShelf[r]]
       /\ UNCHANGED <<Granted, now>>
  /\ \A r : Shelf!Grant(r) <=>
       Granted' = Granted \cup {[resource |-> r, since |-> now]} /\ UNCHANGED <<OnShelf, now>>
  /\ \A g : Shelf!UseGrant(g) <=> now <= g.since + Hour /\ Shelf!Fill(g.resource, Parcel)
  /\ Shelf!Pass <=> now' = now + 1 /\ UNCHANGED <<OnShelf, Granted>>
  BY DEF OnShelf, Granted, Shelf!SInit, Shelf!svars, Shelf!Fill, Shelf!Clear, Shelf!Grant,
         Shelf!UseGrant, Shelf!Pass

\* A PUT fills the shelf of its resource, or of a droplet under its name.
LEMMA StoreFills ==
  ASSUME Inv, NEW r \in Resource, NEW cs, Store(r, cs), UNCHANGED <<backend, Granted, now>>
  PROVE  Shelf!Fill(r, cs)
  <1>1. PICK s \in Targets(r), c \in cs \cup {bucket[KeyOf(t)] : t \in Copyable(r)} :
          bucket' = [bucket EXCEPT ![KeyOf(s)] = c]
    BY DEF Store
  <1>2. s \in Resource /\ s \in {r} \cup Versions(r)
    BY <1>1 DEF Targets, Versions
  <1>3. OnShelf' = [OnShelf EXCEPT ![s] = c]
    BY <1>1, <1>2, FillsShelf
  <1>4. CASE c \in cs
    BY <1>2, <1>3, <1>4, ShelfTerms
  <1>5. CASE \E t \in Copyable(r) : c = bucket[KeyOf(t)]
    <2>1. PICK t \in Copyable(r) : c = bucket[KeyOf(t)]
      BY <1>5
    <2>2. t \in Resource /\ t.type = r.type /\ bucket[KeyOf(t)] # Absent /\ ~TakesDigest(r)
      BY <2>1 DEF Copyable
    <2>3. s = r
      BY <1>1, <2>2 DEF Targets
    <2>4. OnShelf[t] = bucket[KeyOf(t)]
      BY <2>2 DEF OnShelf
    <2>5. QED
      BY <1>3, <2>1, <2>2, <2>3, <2>4, ShelfTerms
  <1>6. QED
    BY <1>1, <1>4, <1>5

LEMMA PutFills ==
  ASSUME Inv, NEW r \in Resource, Put(r)
  PROVE  Shelf!Fill(r, Content)
  <1>1. UNCHANGED <<backend, Granted, now>>
    BY DEF Put, Granted
  <1>2. QED
    BY <1>1, StoreFills DEF Put

LEMMA DeleteClears ==
  ASSUME Inv, NEW r \in Resource, Delete(r)
  PROVE  Shelf!Clear({r})
  <1>1. UNCHANGED <<backend, Granted, now>>
    BY DEF Delete, Granted
  <1>2. OnShelf' = [OnShelf EXCEPT ![r] = Absent]
    BY <1>1, FillsShelf DEF Delete
  <1>3. OnShelf' = [s \in Resource |-> IF s \in {r} THEN Absent ELSE OnShelf[s]]
    BY <1>2 DEF OnShelf
  <1>4. QED
    BY <1>1, <1>3, ShelfTerms

\* All entries are the entries of some app.
LEMMA AllEntries ==
  UNION {CacheOf[a] : a \in DOMAIN CacheOf} = {r \in Resource : r.type = "buildpack_cache"}
  BY URLAssumption DEF CacheOf, EntryOf

LEMMA DeleteDirClears ==
  ASSUME Inv, NEW dir \in App \cup {<<>>}, DeleteDir(dir)
  PROVE  \/ \E a \in DOMAIN CacheOf : Shelf!Clear(CacheOf[a])
         \/ Shelf!Clear(UNION {CacheOf[a] : a \in DOMAIN CacheOf})
  <1>1. UNCHANGED <<Granted, now>>
    BY DEF DeleteDir, Granted
  <1>2. CASE dir \in App
    <2>1. dir \in DOMAIN CacheOf /\ CacheOf[dir] = {r \in Resource : EntryOf(dir, r)}
      BY <1>2 DEF CacheOf
    <2>2. \A r \in Resource :
            InDir(backend, "buildpack_cache", dir, KeyOf(r)) <=> r \in CacheOf[dir]
      BY <1>2, <2>1, InCache DEF KeyOf
    <2>3. Shelf!Clear(CacheOf[dir])
      BY <1>1, <2>2, ClearsShelves, ShelfTerms
    <2>4. QED
      BY <2>1, <2>3
  <1>3. CASE dir = <<>>
    <2> DEFINE all == UNION {CacheOf[a] : a \in DOMAIN CacheOf}
    <2>1. \A r \in Resource :
            InDir(backend, "buildpack_cache", dir, KeyOf(r)) <=> r \in all
      BY <1>3, AllEntries, InCaches DEF KeyOf
    <2> HIDE DEF all
    <2>2. Shelf!Clear(all)
      BY <1>1, <2>1, ClearsShelves, ShelfTerms
    <2>3. QED
      BY <2>2 DEF all
  <1>4. QED
    BY <1>2, <1>3

LEMMA SignGrants ==
  ASSUME Inv, NEW r \in Resource, NEW verb \in {"get", "put"}, Sign(r, verb)
  PROVE  Shelf!Grant(r) \/ UNCHANGED Shelf!svars
  <1>1. UNCHANGED <<backend, bucket, now>>
    BY DEF Sign
  <1>2. UNCHANGED <<OnShelf, now>>
    BY <1>1 DEF OnShelf, KeyOf
  <1>3. PICK e \in Expiries(verb) :
          urls' = urls \cup {[resource |-> r, verb |-> verb, since |-> now, expires |-> e]}
    BY DEF Sign
  <1> DEFINE u == [resource |-> r, verb |-> verb, since |-> now, expires |-> e]
  <1>4. CASE verb = "put"
    <2>1. {v \in urls' : v.verb = "put"} = {v \in urls : v.verb = "put"} \cup {u}
      BY <1>3, <1>4
    <2>2. GrantOf(u) = [resource |-> r, since |-> now]
      BY DEF GrantOf
    <2> HIDE DEF u
    <2>3. Granted' = {GrantOf(v) : v \in {v \in urls' : v.verb = "put"}}
      BY DEF Granted, GrantOf
    <2>4. Granted' = Granted \cup {GrantOf(u)}
      BY <2>1, <2>3 DEF Granted
    <2>5. QED
      BY <1>2, <2>2, <2>4, ShelfTerms
  <1>5. CASE verb = "get"
    <2>1. {v \in urls' : v.verb = "put"} = {v \in urls : v.verb = "put"}
      BY <1>3, <1>5
    <2>2. Granted' = Granted
      BY <2>1 DEF Granted, GrantOf
    <2>3. QED
      BY <1>2, <2>2 DEF Shelf!svars, OnShelf, Granted
  <1>6. QED
    BY <1>4, <1>5

LEMMA UploadUsesGrant ==
  ASSUME Inv, NEW u \in urls, Upload(u)
  PROVE  \E g \in Granted : Shelf!UseGrant(g)
  <1>1. u.resource \in Resource /\ UNCHANGED <<backend, Granted, now>>
    BY DEF Inv, TypeOK, URL, Upload, Granted
  <1>4. Shelf!Fill(u.resource, Parcel)
    BY <1>1, StoreFills DEF Upload
  <1>5. GrantOf(u) \in Granted /\ GrantOf(u).resource = u.resource /\ GrantOf(u).since = u.since
    BY DEF Granted, GrantOf, Upload
  <1>6. now <= u.since + Hour
    <2>1. now \in Nat /\ u.since \in Nat /\ u.expires \in Nat /\ Hour \in Nat
      BY URLAssumption DEF Inv, TypeOK, URL
    <2>2. now <= u.expires /\ u.expires <= u.since + Hour
      BY DEF Upload, SignatureValid, Inv, Signed
    <2>3. QED
      BY <2>1, <2>2
  <1>7. QED
    BY <1>4, <1>5, <1>6, ShelfTerms

LEMMA StepOfShelves == Inv /\ [Next]_vars => [Shelf!SNext]_Shelf!svars
  <1> SUFFICES ASSUME Inv, [Next]_vars PROVE [Shelf!SNext]_Shelf!svars
    OBVIOUS
  <1>1. ASSUME NEW r \in Resource, Put(r) PROVE Shelf!SNext
    BY <1>1, PutFills DEF Shelf!SNext
  <1>2. ASSUME NEW r \in Resource, Delete(r) PROVE Shelf!SNext
    BY <1>2, DeleteClears DEF Shelf!SNext
  <1>3. ASSUME NEW dir \in App \cup {<<>>}, DeleteDir(dir) PROVE Shelf!SNext
    BY <1>3, DeleteDirClears DEF Shelf!SNext
  <1>4. ASSUME NEW r \in Resource, NEW verb \in {"get", "put"}, Sign(r, verb)
        PROVE  [Shelf!SNext]_Shelf!svars
    BY <1>4, SignGrants DEF Shelf!SNext
  <1>5. ASSUME NEW u \in urls, Upload(u) PROVE Shelf!SNext
    BY <1>5, UploadUsesGrant DEF Shelf!SNext, Granted
  <1>6. CASE Tick
    <2>1. UNCHANGED <<OnShelf, Granted>> /\ now' = now + 1
      BY <1>6 DEF Tick, OnShelf, Granted, KeyOf
    <2>2. Shelf!Pass
      BY <2>1, ShelfTerms
    <2>3. QED
      BY <2>2 DEF Shelf!SNext
  <1>7. CASE UNCHANGED vars
    <2>1. UNCHANGED <<OnShelf, Granted, now>>
      BY <1>7 DEF vars, OnShelf, Granted, KeyOf
    <2>2. QED
      BY <2>1 DEF Shelf!svars, OnShelf, Granted
  <1>8. QED
    BY <1>1, <1>2, <1>3, <1>4, <1>5, <1>6, <1>7 DEF Next

\* One bucket, with its prefixes, partitions and deletions by prefix, is as
\* good as a shelf for every resource, and a signed URL as a grant for an hour,
\* which for a droplet's name is one for the droplets under that name
\* (pathFor, the decorators, main.go's prefixes, SetUpDropletRoutes).
THEOREM ShelvesKept == Spec => KeepsShelves
  <1>1. Init => Shelf!SInit
    <2> SUFFICES ASSUME Init PROVE Shelf!SInit
      OBVIOUS
    <2>1. \A r \in Resource : KeyOf(r) \in Key(backend)
      BY DEF Key, KeyOf
    <2>2. OnShelf = [r \in Resource |-> Absent]
      BY <2>1 DEF Init, OnShelf
    <2>3. Granted = {} /\ now = 0
      BY DEF Init, Granted
    <2>4. QED
      BY <2>2, <2>3, ShelfTerms
  <1>2. QED
    BY <1>1, StepOfShelves, Invariance, PTL DEF Spec, KeepsShelves, Shelf!SSpec
=============================================================================
