--------------------------- MODULE UploadsProofs ---------------------------
(***************************************************************************)
(* What gets into the bucket and what is refused, for every file, chunk,   *)
(* sample and limit.  The type is judged once, on as much of the sample as *)
(* is there; the lemmas show that the rest of the sample changes nothing.  *)
(***************************************************************************)
EXTENDS Uploads, SequenceTheorems, TLAPS

Least(m, n) == IF m < n THEN m ELSE n
First(s, n) == SubSeq(s, 1, n)

-----------------------------------------------------------------------------
\* The beginning of a sequence.
LEMMA FirstFacts ==
    ASSUME NEW S, NEW s \in Seq(S), NEW n \in 0..Len(s)
    PROVE  /\ First(s, n) \in Seq(S)
           /\ Len(First(s, n)) = n
           /\ \A i \in 1..n : First(s, n)[i] = s[i]
<1>1. \A i \in 1..n : s[i] \in S
  BY ElementOfSeq
<1> QED
  BY <1>1, SubSeqProperties DEF First

LEMMA PrefixIsFirst ==
    ASSUME NEW S, NEW s \in Seq(S), NEW n \in Nat
    PROVE  /\ Prefix(s, n) = First(s, Least(Len(s), n))
           /\ Least(Len(s), n) \in 0..Len(s)
BY LenProperties DEF Prefix, First, Least

\* The beginning of a beginning.
LEMMA FirstOfFirst ==
    ASSUME NEW S, NEW s \in Seq(S), NEW n \in 0..Len(s), NEW m \in 0..n
    PROVE  First(First(s, n), m) = First(s, m)
<1> DEFINE t == First(s, n)
<1>1. t \in Seq(S) /\ Len(t) = n /\ \A i \in 1..n : t[i] = s[i]
  BY FirstFacts
<1>2. m \in 0..Len(s) /\ m \in 0..Len(t)
  BY <1>1, LenProperties
<1>3. First(t, m) \in Seq(S) /\ Len(First(t, m)) = m /\ \A i \in 1..m : First(t, m)[i] = t[i]
  <2> HIDE DEF t
  <2> QED BY <1>1, <1>2, FirstFacts
<1>4. First(s, m) \in Seq(S) /\ Len(First(s, m)) = m /\ \A i \in 1..m : First(s, m)[i] = s[i]
  BY <1>2, FirstFacts
<1>5. \A i \in 1..m : First(t, m)[i] = First(s, m)[i]
  BY <1>1, <1>3, <1>4
<1> HIDE DEF t
<1>6. First(t, m) = First(s, m)
  BY <1>3, <1>4, <1>5, SeqEqual
<1> QED
  BY <1>6 DEF t

\* The beginning of the sample is the beginning of the file.
LEMMA SampleOfFirst ==
    ASSUME NEW f \in Seq(Bytes), NEW n \in 0..Len(f)
    PROVE  Prefix(First(f, n), SniffBytes) = First(f, Least(n, SniffBytes))
<1>1. First(f, n) \in Seq(Bytes) /\ Len(First(f, n)) = n
  BY FirstFacts
<1>2. Prefix(First(f, n), SniffBytes) = First(First(f, n), Least(n, SniffBytes))
  BY <1>1, PrefixIsFirst, SizesArePositive
<1>3. Least(n, SniffBytes) \in 0..n
  BY SizesArePositive DEF Least
<1> QED
  BY <1>2, <1>3, FirstOfFirst

-----------------------------------------------------------------------------
\* Two signatures never fit one sample.
LEMMA OneSignature ==
    ASSUME NEW f \in Seq(Bytes), NEW t \in Signed(f), NEW s \in Signed(f)
    PROVE  t = s
<1> SUFFICES ASSUME t # s PROVE FALSE
  OBVIOUS
<1>1. t \in DOMAIN Signatures /\ s \in DOMAIN Signatures
  BY DEF Signed
<1>2. PICK i \in DOMAIN Signatures[t] \intersect DOMAIN Signatures[s] :
        /\ Gap \notin {Signatures[t][i], Signatures[s][i]}
        /\ Signatures[t][i] # Signatures[s][i]
  BY <1>1, SignaturesAreDistinct
<1>3. Signatures[t][i] = f[i] /\ Signatures[s][i] = f[i]
  BY <1>2 DEF Signed, Starts
<1> QED
  BY <1>2, <1>3

\* A signature that has shown, or cannot show any more, stays.
LEMMA SignedStays ==
    ASSUME NEW f \in Seq(Bytes), NEW n \in 0..Len(f),
           Signed(First(f, n)) # {} \/ n >= Least(Len(f), SniffBytes)
    PROVE  Signed(First(f, n)) = Signed(f)
<1> DEFINE s == First(f, n)
<1>1. s \in Seq(Bytes) /\ Len(s) = n /\ \A i \in 1..n : s[i] = f[i]
  BY FirstFacts
<1>2. Len(f) \in Nat
  BY LenProperties
<1>3. \A t \in DOMAIN Signatures :
        /\ Len(Signatures[t]) \in 1..SniffBytes
        /\ DOMAIN Signatures[t] = 1..Len(Signatures[t])
  <2> TAKE t \in DOMAIN Signatures
  <2>1. Signatures[t] \in Seq(Bytes \union {Gap})
    BY FilesAreBytes
  <2> QED
    BY <2>1, LenProperties, SignaturesAreDistinct
<1> HIDE DEF s
<1>4. ASSUME NEW t \in DOMAIN Signatures, Len(Signatures[t]) <= n
      PROVE  Starts(s, Signatures[t]) <=> Starts(f, Signatures[t])
  BY <1>1, <1>2, <1>3, <1>4, SizesArePositive DEF Starts
<1>5. Signed(s) \subseteq Signed(f)
  <2> SUFFICES ASSUME NEW t \in Signed(s) PROVE t \in Signed(f)
    OBVIOUS
  <2>1. t \in DOMAIN Signatures /\ Starts(s, Signatures[t])
    BY DEF Signed
  <2>2. Len(Signatures[t]) <= n
    BY <1>1, <2>1 DEF Starts
  <2> QED
    BY <1>4, <2>1, <2>2 DEF Signed
<1>6. ASSUME Signed(s) # {}
      PROVE  Signed(s) = Signed(f)
  <2>1. PICK t \in Signed(s) : TRUE
    BY <1>6
  <2>2. \A t2 \in Signed(f) : t2 = t
    BY <1>5, <2>1, OneSignature
  <2> QED
    BY <1>5, <2>1, <2>2
<1>7. ASSUME n >= Least(Len(f), SniffBytes)
      PROVE  Signed(s) = Signed(f)
  <2> SUFFICES ASSUME NEW t \in Signed(f) PROVE t \in Signed(s)
    BY <1>5
  <2>1. t \in DOMAIN Signatures /\ Starts(f, Signatures[t])
    BY DEF Signed
  <2>2. Len(Signatures[t]) <= Len(f)
    BY <2>1 DEF Starts
  <2>3. Len(Signatures[t]) <= n
    BY <1>2, <1>3, <1>7, <2>1, <2>2, SizesArePositive DEF Least
  <2> QED
    BY <1>4, <2>1, <2>3 DEF Signed
<1>8. Signed(s) # {} \/ n >= Least(Len(f), SniffBytes)
  BY DEF s
<1>9. Signed(s) = Signed(f)
  BY <1>6, <1>7, <1>8
<1> QED
  BY <1>9 DEF s

\* The type of a part of the sample that is enough is the type of the sample.
LEMMA EnoughIsEnough ==
    ASSUME NEW f \in Seq(Bytes), NEW n \in 0..Len(f),
           LET s == First(f, Least(n, SniffBytes))
           IN  ShouldValidate(s) \/ n = Len(f)
    PROVE  Detect(First(f, Least(n, SniffBytes))) = Detect(Prefix(f, SniffBytes))
<1> DEFINE m == Least(n, SniffBytes)
           w == Least(Len(f), SniffBytes)
<1>1. Len(f) \in Nat /\ m \in 0..Len(f) /\ w \in 0..Len(f) /\ m <= w
  BY LenProperties, SizesArePositive DEF Least
<1>2. Prefix(f, SniffBytes) = First(f, w)
  BY PrefixIsFirst, SizesArePositive
<1>3. Len(First(f, m)) = m
  BY <1>1, FirstFacts
<1>4. CASE m = w
  BY <1>2, <1>4
<1>5. CASE m # w
  <2>1. Signed(First(f, m)) # {}
    BY <1>1, <1>3, <1>5, SizesArePositive DEF ShouldValidate, Least
  <2>2. Signed(First(f, m)) = Signed(f)
    <3> HIDE DEF m
    <3> QED BY <1>1, <2>1, SignedStays
  <2>3. Signed(First(f, w)) = Signed(f)
    <3>1. w >= Least(Len(f), SniffBytes)
      BY <1>1
    <3> HIDE DEF w
    <3> QED BY <1>1, <3>1, SignedStays
  <2> QED
    BY <1>2, <2>1, <2>2, <2>3 DEF Detect
<1> QED
  BY <1>4, <1>5

\* A file that is refused for its sample is refused for itself, unless it is a
\* text that the sample does not do justice to.
LEMMA RefusedForItself ==
    ASSUME NEW f \in Seq(Bytes), NEW d, d # Null,
           Detect(Prefix(f, SniffBytes)) # d
    PROVE  Detect(f) # d \/ (d = Text /\ Misjudged(f))
<1> DEFINE w == Least(Len(f), SniffBytes)
           s == First(f, w)
<1>1. Len(f) \in Nat /\ w \in 0..Len(f) /\ Prefix(f, SniffBytes) = s
  BY LenProperties, PrefixIsFirst, SizesArePositive
<1>2. Len(s) = w /\ \A i \in 1..w : s[i] = f[i]
  BY <1>1, FirstFacts
<1>3. DOMAIN s = 1..w /\ DOMAIN f = 1..Len(f)
  <2>1. s \in Seq(Bytes)
    BY <1>1, FirstFacts
  <2> QED BY <1>2, <2>1, LenProperties
<1>4. Signed(s) = Signed(f)
  <2>1. w >= Least(Len(f), SniffBytes)
    BY <1>1
  <2> HIDE DEF w
  <2> QED BY <1>1, <2>1, SignedStays
<1>5. CASE Signed(f) # {} \/ d # Text \/ LooksLikeText(s)
  BY <1>1, <1>4, <1>5 DEF Detect
<1>6. CASE Len(f) <= SniffBytes
  <2>1. w = Len(f)
    BY <1>1, <1>6, SizesArePositive DEF Least
  <2>2. s = f
    BY <2>1, SubSeqFull DEF First
  <2> QED
    BY <1>1, <2>2
<1>7. CASE Signed(f) = {} /\ d = Text /\ ~LooksLikeText(s) /\ Len(f) > SniffBytes
  <2> SUFFICES ASSUME ~Misjudged(f) PROVE ~Decodes(f)
    BY <1>7 DEF Detect, LooksLikeText
  <2>1. w = SniffBytes /\ f[SniffBytes] # Lead /\ ~Decodes(s)
    BY <1>1, <1>7, SizesArePositive DEF Least, Misjudged, LooksLikeText
  <2> HIDE DEF s, w
  <2>2. PICK i \in 1..w :
          \/ s[i] = Nul
          \/ s[i] = Lead /\ ~(i < w /\ s[i + 1] = Cont)
          \/ s[i] = Cont /\ ~(i > 1 /\ s[i - 1] = Lead)
    BY <1>2, <1>3, <2>1 DEF Decodes
  <2>3. i \in DOMAIN f /\ s[i] = f[i]
    BY <1>1, <1>2, <1>3, <2>2
  <2>4. CASE s[i] = Nul
    BY <2>3, <2>4 DEF Decodes
  <2>5. CASE s[i] = Lead /\ ~(i < w /\ s[i + 1] = Cont)
    <3>1. i < w
      <4>1. f[i] = Lead /\ i # SniffBytes
        BY <2>1, <2>3, <2>5
      <4>2. i # w
        BY <2>1, <4>1
      <4> QED
        BY <1>1, <4>2
    <3>2. s[i + 1] = f[i + 1]
      BY <1>1, <1>2, <3>1
    <3> QED BY <2>3, <2>5, <3>1, <3>2 DEF Decodes
  <2>6. CASE s[i] = Cont /\ ~(i > 1 /\ s[i - 1] = Lead)
    <3>1. i > 1 => s[i - 1] = f[i - 1]
      BY <1>1, <1>2
    <3> QED BY <2>3, <2>6, <3>1 DEF Decodes
  <2> QED BY <2>2, <2>4, <2>5, <2>6
<1> QED
  BY <1>1, <1>5, <1>6, <1>7, SizesArePositive

-----------------------------------------------------------------------------
\* The inductive invariant.
Job == [file : Files, declared : DeclaredTypes, read : Nat, sample : Seq(Bytes),
        verdict : DeclaredTypes \union {Null}, spool : Seq(Bytes),
        key : Keys \union {Null}]

\* What the local variables of a handler are, after so many bytes.
KnowsFile(j) ==
    /\ j \in Job
    /\ j.read \in 0..Len(j.file) /\ j.read <= MaxBytes
    /\ j.spool = First(j.file, j.read)
    /\ j.sample = First(j.file, Least(j.read, SniffBytes))
    /\ j.verdict # Null =>
        /\ j.verdict = j.declared /\ j.declared \in AllowedTypes
        /\ j.verdict = Detect(Prefix(j.file, SniffBytes))

\* Once it is read, it is the file that was sent, under its type.
Accepted(j) == j.read = Len(j.file) /\ j.verdict # Null

Sent(j) == [content |-> j.file, type |-> j.declared]

Refusable(j) ==
    \/ j.declared \notin AllowedTypes
    \/ Len(j.file) > MaxBytes
    \/ Detect(j.file) # j.declared
    \/ j.declared = Text /\ Misjudged(j.file)

KnowsUpload(u) ==
    /\ pc[u] # "idle" => KnowsFile(job[u])
    /\ pc[u] = "read" => job[u].declared \in AllowedTypes
    /\ pc[u] \in {"put", "presign", "ok"} => Accepted(job[u])
    /\ pc[u] \in {"presign", "ok"} =>
        job[u].key \in Keys /\ bucket[job[u].key] = Sent(job[u])
    /\ pc[u] = "bad_request" => Refusable(job[u])

Clean(object) ==
    /\ object \in StoredObject
    /\ Len(object.content) <= MaxBytes
    /\ object.type = Detect(Prefix(object.content, SniffBytes))

UploadsInv ==
    /\ pc \in [Uploads -> {"idle", "read", "put", "presign"} \union Answers]
    /\ job \in [Uploads -> Job \union {Null}]
    /\ bucket \in [Keys -> StoredObject \union {Null}]
    /\ \A k \in Keys : bucket[k] # Null => Clean(bucket[k])
    /\ \A u \in Uploads : KnowsUpload(u)

\* What every step keeps of the bucket, its own upload apart: objects stay.
Keeps == \A k \in Keys : bucket[k] # Null => bucket'[k] = bucket[k]

-----------------------------------------------------------------------------
\* The other uploads are not disturbed.
LEMMA OthersKeep ==
    ASSUME UploadsInv, Keeps, NEW u \in Uploads, NEW v \in Uploads, v # u,
           pc'[v] = pc[v], job'[v] = job[v]
    PROVE  KnowsUpload(v)'
<1>1. pc[v] \in {"presign", "ok"} =>
        bucket'[job[v].key] = bucket[job[v].key]
  <2> SUFFICES ASSUME pc[v] \in {"presign", "ok"}
      PROVE bucket'[job[v].key] = bucket[job[v].key]
    OBVIOUS
  <2>1. job[v].key \in Keys /\ bucket[job[v].key] = Sent(job[v])
    BY DEF UploadsInv, KnowsUpload
  <2>2. bucket[job[v].key] \in StoredObject \union {Null}
    BY <2>1 DEF UploadsInv
  <2>3. Sent(job[v]) \in StoredObject
    BY DEF UploadsInv, KnowsUpload, KnowsFile, Accepted, Job, Sent, StoredObject
  <2> QED
    BY <2>1, <2>3, NullIsNoObject DEF Keeps
<1> QED
  BY <1>1 DEF UploadsInv, KnowsUpload

\* A chunk goes on where the last one ended.
LEMMA ChunkGoesOn ==
    ASSUME NEW j, KnowsFile(j), j.read < Len(j.file)
    PROVE  LET total == j.read + Len(NextChunk(j)) IN
           /\ total \in 0..Len(j.file) /\ total > j.read
           /\ j.spool \o NextChunk(j) = First(j.file, total)
           /\ Extended(j) = First(j.file, Least(total, SniffBytes))
<1> DEFINE f == j.file
           n == IF j.read + ChunkSize < Len(f) THEN j.read + ChunkSize ELSE Len(f)
<1>1. /\ f \in Seq(Bytes) /\ Len(f) \in Nat
      /\ j.read \in Nat /\ j.read < Len(f) /\ SniffBytes \in Nat \ {0}
      /\ j.spool = First(f, j.read) /\ NextChunk(j) = SubSeq(f, j.read + 1, n)
      /\ j.sample = First(f, Least(j.read, SniffBytes))
  BY LenProperties, FilesAreBytes, SizesArePositive DEF KnowsFile, Job, NextChunk
<1>2. n \in j.read..Len(f) /\ n > j.read
  BY <1>1, SizesArePositive
<1> HIDE DEF f, n
<1>3. NextChunk(j) \in Seq(Bytes) /\ Len(NextChunk(j)) = n - j.read
  <2>1. \A i \in j.read + 1 .. n : f[i] \in Bytes
    BY <1>1, <1>2, ElementOfSeq
  <2>2. j.read + 1 \in Int /\ n \in Int /\ j.read + 1 <= n
    BY <1>1, <1>2
  <2>3. /\ SubSeq(f, j.read + 1, n) \in Seq(Bytes)
        /\ Len(SubSeq(f, j.read + 1, n)) = n - (j.read + 1) + 1
    BY <2>1, <2>2, SubSeqProperties
  <2>4. n - (j.read + 1) + 1 = n - j.read
    BY <1>1, <1>2
  <2> QED
    BY <1>1, <2>3, <2>4
<1>4. j.read + Len(NextChunk(j)) = n /\ n \in 0..Len(f)
  BY <1>1, <1>2, <1>3
<1>5. First(f, j.read) \o NextChunk(j) = First(f, n)
  <2>1. /\ 1 \in 1..Len(f) + 1
        /\ j.read \in 1 - 1..Len(f) /\ n \in j.read..Len(f)
    BY <1>1, <1>2
  <2> QED
    BY <1>1, <2>1, ConcatAdjacentSubSeq DEF First
<1>6. Extended(j) = First(f, Least(n, SniffBytes))
  <2>1. CASE j.read <= SniffBytes
    <3>1. j.sample = First(f, j.read)
      BY <1>1, <2>1 DEF Least
    <3> QED
      BY <1>1, <1>4, <1>5, <3>1, SampleOfFirst DEF Extended
  <2>2. CASE j.read > SniffBytes
    <3>1. j.sample = First(f, SniffBytes) /\ SniffBytes \in 0..Len(f)
          /\ Least(n, SniffBytes) = SniffBytes
      BY <1>1, <1>2, <2>2 DEF Least
    <3>2. j.sample \in Seq(Bytes) /\ Len(j.sample) = SniffBytes
      BY <1>1, <3>1, FirstFacts
    <3> DEFINE both == j.sample \o NextChunk(j)
    <3>3. both \in Seq(Bytes) /\ Len(both) = Len(j.sample) + Len(NextChunk(j))
      BY <1>3, <3>2, ConcatProperties
    <3>4. Extended(j) = First(both, SniffBytes)
      <4>1. Extended(j) = Prefix(both, SniffBytes)
        BY DEF Extended
      <4> HIDE DEF both
      <4>2. Least(Len(both), SniffBytes) = SniffBytes
        BY <1>1, <1>2, <1>3, <3>2, <3>3 DEF Least
      <4> QED
        BY <1>1, <3>3, <4>1, <4>2, PrefixIsFirst
    <3>5. 1 \in 1..Len(j.sample) /\ SniffBytes \in 1..Len(j.sample)
      BY <1>1, <3>2
    <3>6. SubSeq(j.sample \o NextChunk(j), 1, SniffBytes) = SubSeq(j.sample, 1, SniffBytes)
      BY <1>3, <3>2, <3>5, SubSeqOfConcat1
    <3>7. SubSeq(j.sample, 1, SniffBytes) = j.sample
      BY <3>2, SubSeqFull
    <3> QED
      BY <3>1, <3>4, <3>6, <3>7 DEF First
  <2> QED
    BY <1>1, <2>1, <2>2
<1> QED
  BY <1>1, <1>2, <1>4, <1>5, <1>6 DEF f

-----------------------------------------------------------------------------
\* One lemma per step.
LEMMA InitInv ==
    ASSUME UploadsInit
    PROVE  UploadsInv
BY DEF UploadsInit, UploadsInv, KnowsUpload, Answers

\* What is left to show of a step that changes no object.
LEMMA QuietStep ==
    ASSUME UploadsInv, NEW u \in Uploads, NEW step, NEW j,
           step \in {"idle", "read", "put", "presign"} \union Answers, j \in Job,
           pc' = [pc EXCEPT ![u] = step], job' = [job EXCEPT ![u] = j],
           UNCHANGED bucket, KnowsUpload(u)'
    PROVE  UploadsInv'
<1>1. Keeps
  BY DEF Keeps
<1>2. \A v \in Uploads : v # u => pc'[v] = pc[v] /\ job'[v] = job[v]
  BY DEF UploadsInv
<1>3. \A v \in Uploads : KnowsUpload(v)'
  BY <1>1, <1>2, OthersKeep
<1>4. pc' \in [Uploads -> {"idle", "read", "put", "presign"} \union Answers]
  BY DEF UploadsInv
<1>5. job' \in [Uploads -> Job \union {Null}]
  BY DEF UploadsInv
<1> QED
  BY <1>3, <1>4, <1>5 DEF UploadsInv

LEMMA StartStep ==
    ASSUME UploadsInv, NEW u \in Uploads, StartUpload(u)
    PROVE  UploadsInv'
<1>1. PICK f \in Files, d \in DeclaredTypes :
        /\ job' = [job EXCEPT ![u] =
                [file |-> f, declared |-> d, read |-> 0, sample |-> <<>>,
                 verdict |-> Null, spool |-> <<>>, key |-> Null]]
        /\ pc' = [pc EXCEPT ![u] = IF d \in AllowedTypes THEN "read" ELSE "bad_request"]
  BY DEF StartUpload, Goto
<1> DEFINE j == [file |-> f, declared |-> d, read |-> 0, sample |-> <<>>,
                 verdict |-> Null, spool |-> <<>>, key |-> Null]
           step == IF d \in AllowedTypes THEN "read" ELSE "bad_request"
<1>2. j \in Job
  BY EmptySeq DEF Job
<1>3. Len(f) \in Nat /\ f \in Seq(Bytes)
  BY FilesAreBytes, LenProperties
<1>4. First(f, 0) = <<>> /\ Least(0, SniffBytes) = 0
  BY SubSeqEmpty, SizesArePositive DEF First, Least
<1>5. KnowsFile(j)
  BY <1>2, <1>3, <1>4, SizesArePositive DEF KnowsFile
<1>6. job'[u] = j /\ pc'[u] = step
  BY <1>1 DEF UploadsInv
<1>7. KnowsUpload(u)'
  BY <1>5, <1>6 DEF KnowsUpload, Refusable
<1>8. step \in {"idle", "read", "put", "presign"} \union Answers /\ UNCHANGED bucket
  BY DEF StartUpload, Answers
<1> QED
  BY <1>1, <1>2, <1>7, <1>8, QuietStep

LEMMA ReadStep ==
    ASSUME UploadsInv, NEW u \in Uploads, ReadChunk(u)
    PROVE  UploadsInv'
<1> DEFINE j == job[u]
           total == j.read + Len(NextChunk(j))
           judge == j.verdict = Null /\ ShouldValidate(Extended(j))
<1>1. /\ pc[u] = "read" /\ KnowsFile(j) /\ j.declared \in AllowedTypes
      /\ j.read < Len(j.file) /\ UNCHANGED bucket
  BY DEF UploadsInv, KnowsUpload, ReadChunk
<1>2. /\ total \in 0..Len(j.file)
      /\ j.spool \o NextChunk(j) = First(j.file, total)
      /\ Extended(j) = First(j.file, Least(total, SniffBytes))
  BY <1>1, ChunkGoesOn
<1>3. /\ j \in Job /\ j.file \in Seq(Bytes) /\ Len(j.file) \in Nat
      /\ j.declared \in DeclaredTypes /\ j.declared # Null
      /\ MaxBytes \in Nat /\ SniffBytes \in Nat
  BY <1>1, FilesAreBytes, LenProperties, SizesArePositive DEF KnowsFile, Job
<1>4. judge => Detect(Extended(j)) = Detect(Prefix(j.file, SniffBytes))
  BY <1>2, <1>3, EnoughIsEnough
<1> DEFINE Bad == total > MaxBytes \/ (judge /\ Detect(Extended(j)) # j.declared)
           next == [j EXCEPT
                        !.read = total,
                        !.sample = Extended(j),
                        !.verdict = IF judge THEN Detect(Extended(j)) ELSE @,
                        !.spool = @ \o NextChunk(j)]
<1>5. ASSUME Bad PROVE UploadsInv'
  <2>1. pc' = [pc EXCEPT ![u] = "bad_request"] /\ job' = job
    BY <1>5 DEF ReadChunk, Goto
  <2>2. Refusable(j)
    <3>1. CASE total > MaxBytes
      BY <1>2, <1>3, <3>1 DEF Refusable
    <3>2. CASE judge /\ Detect(Extended(j)) # j.declared
      BY <1>3, <1>4, <3>2, RefusedForItself DEF Refusable
    <3> QED BY <1>5, <3>1, <3>2
  <2>3. job' = [job EXCEPT ![u] = j] /\ job'[u] = j /\ pc'[u] = "bad_request"
    BY <2>1 DEF UploadsInv
  <2>4. KnowsUpload(u)'
    BY <1>1, <2>2, <2>3 DEF KnowsUpload
  <2> QED
    BY <1>1, <1>3, <2>1, <2>3, <2>4, QuietStep DEF Answers
<1>6. ASSUME ~Bad PROVE UploadsInv'
  <2>1. job' = [job EXCEPT ![u] = next] /\ pc' = pc
    BY <1>6 DEF ReadChunk
  <2>2. /\ next.file = j.file /\ next.declared = j.declared /\ next.key = j.key
        /\ next.read = total /\ next.sample = Extended(j)
        /\ next.verdict = IF judge THEN Detect(Extended(j)) ELSE j.verdict
        /\ next.spool = j.spool \o NextChunk(j)
    BY <1>3 DEF Job
  <2>3. total <= MaxBytes /\ (judge => Detect(Extended(j)) = j.declared)
    BY <1>2, <1>3, <1>6
  <2>4. next.sample \in Seq(Bytes) /\ next.spool \in Seq(Bytes)
    <3>1. Least(total, SniffBytes) \in 0..Len(j.file)
      BY <1>2, <1>3 DEF Least
    <3> QED
      BY <1>2, <1>3, <2>2, <3>1, FirstFacts
  <2>5. next \in Job
    <3>1. next.verdict \in DeclaredTypes \union {Null}
      BY <1>3, <2>2, <2>3 DEF Job
    <3>2. total \in Nat
      BY <1>2
    <3> HIDE DEF total, judge
    <3> QED
      BY <1>3, <2>2, <2>4, <3>1, <3>2 DEF Job
  <2>6. KnowsFile(next)
    <3>1. next.verdict # Null =>
            /\ next.verdict = next.declared /\ next.declared \in AllowedTypes
            /\ next.verdict = Detect(Prefix(next.file, SniffBytes))
      <4>1. CASE judge
        BY <1>1, <1>4, <2>2, <2>3, <4>1
      <4>2. CASE ~judge
        BY <1>1, <2>2, <4>2 DEF KnowsFile
      <4> QED BY <4>1, <4>2
    <3> HIDE DEF next, total, judge
    <3> QED
      BY <1>2, <2>2, <2>3, <2>5, <3>1 DEF KnowsFile
  <2>7. pc' = [pc EXCEPT ![u] = "read"] /\ pc'[u] = "read" /\ job'[u] = next
    BY <1>1, <2>1 DEF UploadsInv
  <2>8. KnowsUpload(u)'
    <3> HIDE DEF next
    <3> QED BY <1>1, <2>2, <2>6, <2>7 DEF KnowsUpload
  <2> HIDE DEF next
  <2> QED
    BY <1>1, <2>1, <2>5, <2>7, <2>8, QuietStep
<1> QED
  BY <1>5, <1>6

LEMMA EndStep ==
    ASSUME UploadsInv, NEW u \in Uploads, EndOfFile(u)
    PROVE  UploadsInv'
<1> DEFINE j == job[u]
<1>1. /\ pc[u] = "read" /\ KnowsFile(j) /\ j.declared \in AllowedTypes
      /\ j.read = Len(j.file) /\ UNCHANGED bucket
  BY DEF UploadsInv, KnowsUpload, EndOfFile
<1>2. /\ j \in Job /\ j.file \in Seq(Bytes) /\ Len(j.file) \in Nat
      /\ j.declared \in DeclaredTypes /\ j.declared # Null
  BY <1>1, FilesAreBytes, LenProperties, SizesArePositive DEF KnowsFile, Job
<1>3. Detect(j.sample) = Detect(Prefix(j.file, SniffBytes))
  BY <1>1, <1>2, EnoughIsEnough DEF KnowsFile
<1> DEFINE Bad == j.verdict = Null /\ Detect(j.sample) # j.declared
           next == [j EXCEPT !.verdict = IF @ = Null THEN Detect(j.sample) ELSE @]
<1>4. ASSUME Bad PROVE UploadsInv'
  <2>1. pc' = [pc EXCEPT ![u] = "bad_request"] /\ job' = job
    BY <1>4 DEF EndOfFile, Goto
  <2>2. Refusable(j)
    BY <1>2, <1>3, <1>4, RefusedForItself DEF Refusable
  <2>3. job' = [job EXCEPT ![u] = j] /\ job'[u] = j /\ pc'[u] = "bad_request"
    BY <2>1 DEF UploadsInv
  <2>4. KnowsUpload(u)'
    BY <1>1, <2>2, <2>3 DEF KnowsUpload
  <2> QED
    BY <1>1, <1>2, <2>1, <2>3, <2>4, QuietStep DEF Answers
<1>5. ASSUME ~Bad PROVE UploadsInv'
  <2>1. job' = [job EXCEPT ![u] = next] /\ pc' = [pc EXCEPT ![u] = "put"]
    BY <1>5 DEF EndOfFile, Goto
  <2>2. /\ next.file = j.file /\ next.declared = j.declared /\ next.key = j.key
        /\ next.read = j.read /\ next.sample = j.sample /\ next.spool = j.spool
        /\ next.verdict = IF j.verdict = Null THEN Detect(j.sample) ELSE j.verdict
    BY <1>2 DEF Job
  <2>3. /\ next.verdict = j.declared
        /\ next.verdict = Detect(Prefix(j.file, SniffBytes))
    BY <1>1, <1>3, <1>5, <2>2 DEF KnowsFile
  <2>4. next \in Job
    <3>1. next.verdict \in DeclaredTypes
      BY <1>2, <2>3
    <3> QED BY <1>2, <2>2, <3>1 DEF Job
  <2>5. KnowsFile(next) /\ Accepted(next)
    <3> HIDE DEF next
    <3> QED BY <1>1, <1>2, <2>2, <2>3, <2>4 DEF KnowsFile, Accepted
  <2>6. pc'[u] = "put" /\ job'[u] = next
    BY <2>1 DEF UploadsInv
  <2>7. KnowsUpload(u)'
    <3> HIDE DEF next
    <3> QED BY <2>5, <2>6 DEF KnowsUpload
  <2> HIDE DEF next
  <2> QED
    BY <1>1, <2>1, <2>4, <2>7, QuietStep
<1> QED
  BY <1>4, <1>5

\* What is put into the bucket is the file, and may be there.
LEMMA StoredIsClean ==
    ASSUME NEW j, KnowsFile(j), Accepted(j)
    PROVE  Stored(j) = Sent(j) /\ Clean(Stored(j))
<1>1. /\ j.file \in Files /\ j.file \in Seq(Bytes)
      /\ j.spool = First(j.file, Len(j.file))
      /\ j.verdict = j.declared /\ j.declared \in AllowedTypes
      /\ j.verdict = Detect(Prefix(j.file, SniffBytes))
      /\ Len(j.file) <= MaxBytes
  BY FilesAreBytes DEF KnowsFile, Accepted, Job
<1>2. j.spool = j.file
  BY <1>1, SubSeqFull DEF First
<1>3. Stored(j) = Sent(j)
  BY <1>1, <1>2 DEF Stored, Sent
<1>4. /\ Sent(j) \in StoredObject
      /\ Sent(j).content = j.file /\ Sent(j).type = j.declared
  BY <1>1 DEF Sent, StoredObject
<1> QED
  BY <1>1, <1>3, <1>4 DEF Clean

\* An object under a new key.
LEMMA PutKeeps ==
    ASSUME UploadsInv, NEW u \in Uploads, pc[u] = "put", NEW k \in NewKeys,
           bucket' = [bucket EXCEPT ![k] = Stored(job[u])]
    PROVE  /\ Keeps /\ k \in Keys
           /\ bucket' \in [Keys -> StoredObject \union {Null}]
           /\ \A q \in Keys : bucket'[q] # Null => Clean(bucket'[q])
           /\ bucket'[k] = Sent(job[u])
<1>1. Stored(job[u]) = Sent(job[u]) /\ Clean(Stored(job[u]))
  BY StoredIsClean DEF UploadsInv, KnowsUpload
<1>2. k \in Keys /\ bucket[k] = Null
  BY DEF NewKeys
<1>3. bucket'[k] = Stored(job[u]) /\ \A q \in Keys : q # k => bucket'[q] = bucket[q]
  BY <1>2 DEF UploadsInv
<1>4. Stored(job[u]) \in StoredObject
  BY <1>1 DEF Clean
<1>5. bucket' \in [Keys -> StoredObject \union {Null}]
  BY <1>4 DEF UploadsInv
<1>6. Keeps
  BY <1>2, <1>3 DEF Keeps
<1>7. \A q \in Keys : bucket'[q] # Null => Clean(bucket'[q])
  BY <1>1, <1>3 DEF UploadsInv
<1> QED
  BY <1>1, <1>2, <1>3, <1>5, <1>6, <1>7

LEMMA PutStep ==
    ASSUME UploadsInv, NEW u \in Uploads, PutObject(u)
    PROVE  UploadsInv'
<1>1. PICK k \in NewKeys :
        /\ bucket' = [bucket EXCEPT ![k] = Stored(job[u])]
        /\ job' = [job EXCEPT ![u].key = k]
  BY DEF PutObject
<1>2. pc[u] = "put" /\ pc' = [pc EXCEPT ![u] = "presign"]
  BY DEF PutObject, Goto
<1>3. /\ Keeps /\ k \in Keys
      /\ bucket' \in [Keys -> StoredObject \union {Null}]
      /\ \A q \in Keys : bucket'[q] # Null => Clean(bucket'[q])
      /\ bucket'[k] = Sent(job[u])
  BY <1>1, <1>2, PutKeeps
<1> DEFINE j == job[u]
           next == [j EXCEPT !.key = k]
<1>4. KnowsFile(j) /\ Accepted(j) /\ j \in Job
  BY <1>2 DEF UploadsInv, KnowsUpload, KnowsFile
<1>5. /\ next.file = j.file /\ next.declared = j.declared /\ next.key = k
      /\ next.read = j.read /\ next.sample = j.sample /\ next.spool = j.spool
      /\ next.verdict = j.verdict /\ next \in Job
  BY <1>3, <1>4 DEF Job
<1>6. job' = [job EXCEPT ![u] = next] /\ job'[u] = next /\ pc'[u] = "presign"
  BY <1>1, <1>2 DEF UploadsInv
<1> HIDE DEF next
<1>7. KnowsFile(next) /\ Accepted(next) /\ Sent(next) = Sent(j)
  BY <1>4, <1>5 DEF KnowsFile, Accepted, Sent
<1>8. KnowsUpload(u)'
  BY <1>3, <1>5, <1>6, <1>7 DEF KnowsUpload
<1>9. \A v \in Uploads : v # u => pc'[v] = pc[v] /\ job'[v] = job[v]
  BY <1>2, <1>6 DEF UploadsInv
<1>10. \A v \in Uploads : KnowsUpload(v)'
  BY <1>3, <1>8, <1>9, OthersKeep
<1>11. /\ pc' \in [Uploads -> {"idle", "read", "put", "presign"} \union Answers]
       /\ job' \in [Uploads -> Job \union {Null}]
  BY <1>2, <1>5, <1>6 DEF UploadsInv
<1> QED
  BY <1>3, <1>10, <1>11 DEF UploadsInv

LEMMA PutFailsStep ==
    ASSUME UploadsInv, NEW u \in Uploads, PutFails(u)
    PROVE  UploadsInv'
<1>1. /\ pc[u] = "put" /\ job' = job
      /\ pc' = [pc EXCEPT ![u] = "storage_error"]
  BY DEF PutFails, Goto
<1>2. /\ Keeps
      /\ bucket' \in [Keys -> StoredObject \union {Null}]
      /\ \A q \in Keys : bucket'[q] # Null => Clean(bucket'[q])
  <2>1. CASE UNCHANGED bucket
    BY <2>1 DEF UploadsInv, Keeps
  <2>2. CASE \E k \in NewKeys : bucket' = [bucket EXCEPT ![k] = Stored(job[u])]
    BY <1>1, <2>2, PutKeeps
  <2> QED BY <2>1, <2>2 DEF PutFails
<1>3. pc'[u] = "storage_error" /\ \A v \in Uploads : v # u => pc'[v] = pc[v]
  BY <1>1 DEF UploadsInv
<1>4. KnowsUpload(u)'
  BY <1>1, <1>3 DEF UploadsInv, KnowsUpload
<1>5. \A v \in Uploads : KnowsUpload(v)'
  BY <1>1, <1>2, <1>3, <1>4, OthersKeep
<1>6. pc' \in [Uploads -> {"idle", "read", "put", "presign"} \union Answers]
  BY <1>1 DEF UploadsInv, Answers
<1> QED
  BY <1>1, <1>2, <1>5, <1>6 DEF UploadsInv

LEMMA PresignStep ==
    ASSUME UploadsInv, NEW u \in Uploads, Presign(u)
    PROVE  UploadsInv'
<1>1. PICK step \in {"ok", "storage_error"} : pc' = [pc EXCEPT ![u] = step]
  BY DEF Presign, Goto
<1>2. pc[u] = "presign" /\ job' = job /\ UNCHANGED bucket
  BY DEF Presign
<1>3. KnowsFile(job[u]) /\ job[u] \in Job
  BY <1>2 DEF UploadsInv, KnowsUpload, KnowsFile
<1>4. pc'[u] = step /\ job' = [job EXCEPT ![u] = job[u]]
  BY <1>1, <1>2 DEF UploadsInv
<1>5. KnowsUpload(u)'
  BY <1>2, <1>4 DEF UploadsInv, KnowsUpload
<1> QED
  BY <1>1, <1>2, <1>3, <1>4, <1>5, QuietStep DEF Answers

-----------------------------------------------------------------------------
\* Every reachable state satisfies the invariant.
THEOREM UploadsInvariant == UploadsSpec => []UploadsInv
<1>1. UploadsInit => UploadsInv
  BY InitInv
<1>2. UploadsInv /\ [UploadsNext]_uploadsVars => UploadsInv'
  <2> SUFFICES ASSUME UploadsInv, [UploadsNext]_uploadsVars
               PROVE  UploadsInv'
    OBVIOUS
  <2>1. ASSUME NEW u \in Uploads, StartUpload(u) PROVE UploadsInv'
    BY <2>1, StartStep
  <2>2. ASSUME NEW u \in Uploads, ReadChunk(u) PROVE UploadsInv'
    BY <2>2, ReadStep
  <2>3. ASSUME NEW u \in Uploads, EndOfFile(u) PROVE UploadsInv'
    BY <2>3, EndStep
  <2>4. ASSUME NEW u \in Uploads, PutObject(u) PROVE UploadsInv'
    BY <2>4, PutStep
  <2>5. ASSUME NEW u \in Uploads, PutFails(u) PROVE UploadsInv'
    BY <2>5, PutFailsStep
  <2>6. ASSUME NEW u \in Uploads, Presign(u) PROVE UploadsInv'
    BY <2>6, PresignStep
  <2>7. CASE UNCHANGED uploadsVars
    BY <2>7 DEF uploadsVars, UploadsInv, KnowsUpload
  <2> QED
    BY <2>1, <2>2, <2>3, <2>4, <2>5, <2>6, <2>7 DEF UploadsNext, HandlerStep
<1> QED
  BY <1>1, <1>2, PTL DEF UploadsSpec

\* Every variable keeps its type; the sample never grows past its size.
THEOREM UploadsTyped == UploadsSpec => []UploadsTypeOK
<1>1. UploadsInv => UploadsTypeOK
  <2> SUFFICES ASSUME UploadsInv, NEW u \in Uploads, pc[u] # "idle"
      PROVE /\ job[u].file \in Files /\ job[u].declared \in DeclaredTypes
            /\ job[u].read \in 0..MaxBytes
            /\ Len(job[u].sample) <= SniffBytes
            /\ job[u].verdict \in AllowedTypes \union {Null}
            /\ job[u].key \in Keys \union {Null}
    BY DEF UploadsInv, UploadsTypeOK
  <2>1. KnowsFile(job[u])
    BY DEF UploadsInv, KnowsUpload
  <2>2. job[u].file \in Seq(Bytes) /\ Len(job[u].file) \in Nat
    BY <2>1, FilesAreBytes, LenProperties DEF KnowsFile, Job
  <2>3. Least(job[u].read, SniffBytes) \in 0..Len(job[u].file)
        /\ Least(job[u].read, SniffBytes) <= SniffBytes
    BY <2>1, <2>2, SizesArePositive DEF KnowsFile, Least
  <2>4. Len(job[u].sample) <= SniffBytes
    BY <2>1, <2>2, <2>3, FirstFacts DEF KnowsFile
  <2> QED
    BY <2>1, <2>4, SizesArePositive DEF KnowsFile, Job
<1> QED
  BY <1>1, UploadsInvariant, PTL

\* Nothing gets into the bucket that is too large, not allowed or of another
\* type than its own first bytes show: what a prefix of the sample has shown
\* the whole sample shows.
THEOREM UploadsBucketIsClean == UploadsSpec => []BucketIsClean
<1>1. UploadsInv => BucketIsClean
  BY DEF UploadsInv, BucketIsClean, Clean, StoredObject
<1> QED
  BY <1>1, UploadsInvariant, PTL

\* An upload answered 200 has its whole file in the bucket, and no other upload
\* ever replaces it.
THEOREM UploadsAnswerMatchesObject == UploadsSpec => []AnswerMatchesObject
<1>1. UploadsInv => AnswerMatchesObject
  BY DEF UploadsInv, AnswerMatchesObject, KnowsUpload, Sent
<1> QED
  BY <1>1, UploadsInvariant, PTL

\* A file is refused for its declared type, its size or its content as a whole;
\* the only exception is a text longer than a sample that ends inside one of its
\* characters or has too many of its unprintable ones.
THEOREM UploadsRefusalsExplained == UploadsSpec => []RefusalsExplained
<1>1. UploadsInv => RefusalsExplained
  BY DEF UploadsInv, RefusalsExplained, KnowsUpload, Refusable
<1> QED
  BY <1>1, UploadsInvariant, PTL
=============================================================================
